---- MODULE Spec2Model ----
(***************************************************************************)
(* Generation-stamped tile scheduler of the fractal explorer               *)
(* (src/src/fractal-viewer.cpp): the controlling thread (view changes,     *)
(* dispatch loop, promotion loop, drawing) and the detached tile workers   *)
(* (computeTileThread), with the per-tile mutex, the pending queue, the    *)
(* scheduled set and the runningThreads counter.                           *)
(*                                                                         *)
(* A pixel buffer is identified by the request that computed it (tile,     *)
(* view, generation); the colour function and the iteration budget are     *)
(* not modelled, the fractal selection is (SET).  committedGeneration,     *)
(* staleItems, issuedSets and the sets field of a worker are observers.    *)
(* Every critical section is two steps, the acquisition of the mutex and   *)
(* the body with the release.                                              *)
(*                                                                         *)
(* Spec is streaming mode with the default flags, FairSpec adds fair       *)
(* scheduling, SpecSync is --no-detached, SpecFail adds thread and memory  *)
(* exhaustion, SpecTasks runs the workers of one tile in any start order,  *)
(* SpecOrder applies the tile-ordering functions to grids of any size,     *)
(* SpecQueue applies scheduleTile to any sequence of requests, SpecDup is   *)
(* streaming mode without duplicate avoidance and SpecSet adds the keys    *)
(* that change the fractal set.  SpecLegacy is the older viewer            *)
(* (src/main.cpp) and SpecVideo the video generator                        *)
(* (src/src/videogen.cpp, src/videogen.cpp).                               *)
(***************************************************************************)
EXTENDS Integers, Sequences, FiniteSets, TLC

(* ---------------------------- bounds ----------------------------------- *)
\* Tile grid (the program uses 16 x 9; the model a small grid).
TILES_X == 2
TILES_Y == 1
\* std::thread::hardware_concurrency() on the modelled host.
MAX_THREADS == 1
\* View changes are issued while generation < MaxGeneration.
MaxGeneration == 2
\* cameraX ranges over 0..MaxCoordX, cameraY over 0..MaxCoordY and the
\* zoom over 1..MaxZoom.
MaxCoordX == 1
MaxCoordY == 0
MaxZoom == 1
\* Detached workers alive at once (threads the host can create).
MaxLiveThreads == 2
\* The ordering functions are applied to every grid of 1..MaxGrid columns
\* and 1..MaxGrid rows.
MaxGrid == 4

(* ------------------------ screen geometry ------------------------------ *)
TILE_WIDTH == 1
TILE_HEIGHT == 1
SCREEN_WIDTH == TILES_X * TILE_WIDTH
SCREEN_HEIGHT == TILES_Y * TILE_HEIGHT

TileCount == TILES_X * TILES_Y
TileIndices == 0 .. (TileCount - 1)
CoordsX == 0 .. MaxCoordX
CoordsY == 0 .. MaxCoordY
Zooms == 1 .. MaxZoom
Generations == 0 .. MaxGeneration

tileX(i) == i % TILES_X
tileY(i) == i \div TILES_X

RECURSIVE Factorial(_)
Factorial(n) == IF n <= 1 THEN 1 ELSE n * Factorial(n - 1)

\* World coordinates are rationals; they are held exactly, in units of
\* 1 / WorldUnit, so that the division by the zoom has no remainder.
WorldUnit == 2 * Factorial(MaxZoom)

\* (tileX * TILE_WIDTH - HALF_SCREEN_WIDTH) / cz + cx
TileOriginX(i, cx, cz) ==
  ((2 * tileX(i) * TILE_WIDTH - SCREEN_WIDTH) * Factorial(MaxZoom)) \div cz
    + cx * WorldUnit

\* (tileY * TILE_HEIGHT - HALF_SCREEN_HEIGHT) / cz + cy
TileOriginY(i, cy, cz) ==
  ((2 * tileY(i) * TILE_HEIGHT - SCREEN_HEIGHT) * Factorial(MaxZoom)) \div cz
    + cy * WorldUnit

(* --------------------------- tile ordering ----------------------------- *)
SeqToSet(s) == {s[k] : k \in 1 .. Len(s)}

\* dx[] = {1, 0, -1, 0}; dy[] = {0, 1, 0, -1}
SpiralDx(d) == CASE d = 0 -> 1 [] d = 1 -> 0 [] d = 2 -> -1 [] OTHER -> 0
SpiralDy(d) == CASE d = 0 -> 0 [] d = 1 -> 1 [] d = 2 -> 0 [] OTHER -> -1

\* The inner loop: `n` moves in direction d, collecting unvisited cells
\* that lie inside the grid.
RECURSIVE SpiralSteps(_, _, _, _, _, _, _)
SpiralSteps(tx, ty, x, y, d, n, result) ==
  IF n = 0 THEN [x |-> x, y |-> y, result |-> result]
  ELSE LET nx == x + SpiralDx(d)
           ny == y + SpiralDy(d)
           inside == nx >= 0 /\ nx < tx /\ ny >= 0 /\ ny < ty
           idx == nx + ny * tx
           res == IF inside /\ idx \notin SeqToSet(result)
                    THEN Append(result, idx) ELSE result
       IN  SpiralSteps(tx, ty, nx, ny, d, n - 1, res)

\* The while loop: two legs of `steps` moves, then steps++.
RECURSIVE SpiralLoop(_, _, _, _, _, _, _)
SpiralLoop(tx, ty, x, y, d, steps, result) ==
  IF Len(result) >= tx * ty THEN result
  ELSE LET a == SpiralSteps(tx, ty, x, y, d, steps, result)
           b == SpiralSteps(tx, ty, a.x, a.y, (d + 1) % 4, steps, a.result)
       IN  SpiralLoop(tx, ty, b.x, b.y, (d + 2) % 4, steps + 1, b.result)

\* Mutant of the starting position: the spiral starts in the corner.
SpiralStartCorner(n) == 0

\* int startX = TILES_X / 2; int startY = TILES_Y / 2;
SpiralStart(n) == n \div 2

getSpiralIndicesOutward(tx, ty) ==
  LET startX == SpiralStart(tx)
      startY == SpiralStart(ty)
  IN  SpiralLoop(tx, ty, startX, startY, 0, 1, <<startX + startY * tx>>)

spiralIndicesOutward == getSpiralIndicesOutward(TILES_X, TILES_Y)

\* Mutant of the index: column and row are exchanged.
TileIndexAtTransposed(tx, i, j) == i * tx + j

\* scheduleTile(j * TILES_X + i)
TileIndexAt(tx, i, j) == j * tx + i

\* for i over the columns (outer), for j over the rows (inner):
\* j * TILES_X + i; a reversed loop counts down.
RasterOrderOn(tx, ty, revX, revY) ==
  [k \in 1 .. (tx * ty) |->
     LET a == (k - 1) \div ty
         b == (k - 1) % ty
         i == IF revX THEN tx - 1 - a ELSE a
         j == IF revY THEN ty - 1 - b ELSE b
     IN  TileIndexAt(tx, i, j)]

RasterOrder(revX, revY) == RasterOrderOn(TILES_X, TILES_Y, revX, revY)

\* The order in which updateTilesParallel calls scheduleTile on a grid of
\* tx columns and ty rows whose spiral order is `spiral`.
ScheduleOrderOn(tx, ty, spiral, diffX, diffY) ==
  IF diffX = 0 /\ diffY = 0 THEN spiral
  ELSE RasterOrderOn(tx, ty, ~(diffX >= 0), ~(diffY >= 0))

ScheduleOrder(diffX, diffY) ==
  ScheduleOrderOn(TILES_X, TILES_Y, spiralIndicesOutward, diffX, diffY)

(* ------------------------------ state ---------------------------------- *)
VARIABLES
  DETACHED_MODE, AVOID_DUPLICATES, USE_OLD_TEXTURES,  \* flags
  SET,                           \* the fractal set the workers compute
  issuedSets,                    \* SET at the call that issued each generation
  cameraX, cameraY, zoom,        \* live camera
  prevCamX, prevCamY, prevZoom,  \* camera at the last view change
  generation,                    \* main's generation counter
  runningThreads,                \* std::atomic<int>
  pendingTiles,                  \* std::deque<PendingTile>
  tilesScheduled,                \* std::unordered_set<int>
  tiles,                         \* std::vector<Tile>
  texMutex,                      \* owner of each tile's mutex
  threads,                       \* the live computeTileThread instances
  allocated,                     \* pixel buffers that are allocated
  committedGeneration,           \* generation of each tile's last accepted commit
  staleItems,                    \* items that were pending when their tile was queued again
  gridX, gridY,                  \* the grid the tile order is computed for
  spiralIndices,                 \* the spiralIndicesOutward vector
  mainPc, loopIdx, drawPass,     \* position of the controlling thread
  frame,                         \* the draws since BeginDrawing, in order
  saveInWorker,                  \* video generator: computeTileThread saves the frame
  frames,                        \* video generator: std::vector<Frame>
  frameFiles,                    \* video generator: the PNG files written, in order
  legacyFrameCount               \* video generator: main's count of saved frames

flagVars == <<DETACHED_MODE, AVOID_DUPLICATES, USE_OLD_TEXTURES>>
setVars == <<SET, issuedSets>>
camVars == <<cameraX, cameraY, zoom>>
prevVars == <<prevCamX, prevCamY, prevZoom>>
queueVars == <<pendingTiles, tilesScheduled>>
tileVars == <<tiles, allocated, committedGeneration>>
mainVars == <<mainPc, loopIdx, drawPass, frame>>
gridVars == <<gridX, gridY, spiralIndices>>
videoVars == <<saveInWorker, frames, frameFiles, legacyFrameCount>>

vars == <<DETACHED_MODE, AVOID_DUPLICATES, USE_OLD_TEXTURES, SET, issuedSets,
          cameraX, cameraY, zoom, prevCamX, prevCamY, prevZoom, generation,
          runningThreads, pendingTiles, tilesScheduled, tiles, texMutex,
          threads, allocated, committedGeneration, staleItems,
          gridX, gridY, spiralIndices,
          mainPc, loopIdx, drawPass, frame,
          saveInWorker, frames, frameFiles, legacyFrameCount>>

\* The viewers have no frames vector and write no file.
NoVideo ==
  /\ saveInWorker = TRUE
  /\ frames = <<>>
  /\ frameFiles = <<>>
  /\ legacyFrameCount = 0

NULL == [null |-> TRUE]
BlankTexture == [blank |-> TRUE]

\* A value-initialised Tile: numbers are 0, the pointer is null, the
\* render textures are blank.
InitialTile ==
  [generation |-> 0, hasComputed |-> FALSE, pixels |-> NULL,
   cx |-> 0, cy |-> 0, cz |-> 0,
   x |-> 0, y |-> 0, z |-> 0,
   oldX |-> 0, oldY |-> 0, oldZ |-> 0,
   veryOldX |-> 0, veryOldY |-> 0, veryOldZ |-> 0,
   texture |-> BlankTexture, oldTexture |-> BlankTexture,
   veryOldTexture |-> BlankTexture]

InitWith(detached, avoid, old) ==
  /\ DETACHED_MODE = detached
  /\ AVOID_DUPLICATES = avoid
  /\ USE_OLD_TEXTURES = old
  /\ cameraX = 0 /\ cameraY = 0 /\ zoom = 1
  /\ prevCamX = 0 /\ prevCamY = 0 /\ prevZoom = 1
  /\ generation = 0
  /\ runningThreads = 0
  /\ pendingTiles = <<>>
  /\ tilesScheduled = {}
  /\ tiles = [i \in TileIndices |-> InitialTile]
  /\ texMutex = [i \in TileIndices |-> "free"]
  /\ threads = {}
  /\ allocated = {}
  /\ committedGeneration = [i \in TileIndices |-> 0]
  /\ staleItems = {}
  /\ SET = 0
  /\ NoVideo
  /\ issuedSets = <<>>
  /\ gridX = TILES_X /\ gridY = TILES_Y
  /\ spiralIndices = spiralIndicesOutward
  /\ mainPc = "first"
  /\ loopIdx = 0
  /\ drawPass = 0
  /\ frame = <<>>

\* The defaults of the flags.
Init == InitWith(TRUE, TRUE, TRUE)

(* ------------------------- computeTileThread --------------------------- *)
\* The buffer a worker allocates; its contents are the colours computed
\* for the worker's tile under the worker's view.
PixelsOf(w) ==
  [tileIndex |-> w.tileIndex, cx |-> w.cx, cy |-> w.cy, cz |-> w.cz,
   generation |-> w.generation]

\* std::thread(computeTileThread, index, cx, cy, cz, generation, ...)
NewThread(i, cx, cy, cz, g) ==
  [tileIndex |-> i, cx |-> cx, cy |-> cy, cz |-> cz, generation |-> g,
   pc |-> "start", pixels |-> NULL, sets |-> {}]

Advance(w, pc) == (threads \ {w}) \cup {[w EXCEPT !.pc = pc]}

\* The threads run as long as the process does: until main returns or
\* std::terminate is called.
ProcessAlive == mainPc \notin {"closed", "terminated"}

\* Mutant of the lock_guard: the mutex stays locked at the end of the block.
UnlockNone(m, i) == m

\* The end of a lock_guard's block: the tile's mutex is released.
Unlock(m, i) == [m EXCEPT ![i] = "free"]

\* runningThreads.fetch_add(1)
WorkerStart(w) ==
  /\ ProcessAlive
  /\ w.pc = "start"
  /\ runningThreads' = runningThreads + 1
  /\ threads' = Advance(w, "intentLock")
  /\ UNCHANGED <<flagVars, videoVars, setVars, gridVars, staleItems, camVars,
                 prevVars, generation, queueVars,
                 tileVars, texMutex, mainVars>>

\* lock_guard on tile.texMutex before the generation update
WorkerIntentLock(w) ==
  /\ ProcessAlive
  /\ w.pc = "intentLock"
  /\ texMutex[w.tileIndex] = "free"
  /\ texMutex' = [texMutex EXCEPT ![w.tileIndex] = "worker"]
  /\ threads' = Advance(w, "intent")
  /\ UNCHANGED <<flagVars, videoVars, setVars, gridVars, staleItems, camVars,
                 prevVars, generation, runningThreads,
                 queueVars, tileVars, mainVars>>

\* Mutant of the intent test: the generation is stored without a test.
IntentAcceptsAlways(tileGeneration, g) == TRUE

\* if (tile.generation <= generation) tile.generation = generation;
IntentAccepts(tileGeneration, g) == tileGeneration <= g

WorkerIntent(w) ==
  /\ ProcessAlive
  /\ w.pc = "intent"
  /\ tiles' = IF IntentAccepts(tiles[w.tileIndex].generation, w.generation)
                THEN [tiles EXCEPT ![w.tileIndex].generation = w.generation]
                ELSE tiles
  /\ texMutex' = Unlock(texMutex, w.tileIndex)
  /\ threads' = Advance(w, "compute")
  /\ UNCHANGED <<flagVars, videoVars, setVars, gridVars, staleItems, camVars,
                 prevVars, generation, runningThreads,
                 queueVars, allocated, committedGeneration, mainVars>>

\* new Color[...] and the per-pixel loop, outside any lock; each pixel is
\* computed by the function that the global SET selects when the loop
\* reaches the pixel.
WorkerCompute(w) ==
  /\ ProcessAlive
  /\ w.pc = "compute"
  /\ allocated' = allocated \cup {PixelsOf(w)}
  /\ threads' = (threads \ {w}) \cup
                  {[w EXCEPT !.pc = "commitLock", !.pixels = PixelsOf(w),
                             !.sets = @ \cup {SET}]}
  /\ UNCHANGED <<flagVars, videoVars, setVars, gridVars, staleItems, camVars,
                 prevVars, generation, runningThreads,
                 queueVars, tiles, committedGeneration, texMutex, mainVars>>

\* lock_guard on tile.texMutex before saving the pixels
WorkerCommitLock(w) ==
  /\ ProcessAlive
  /\ w.pc = "commitLock"
  /\ texMutex[w.tileIndex] = "free"
  /\ texMutex' = [texMutex EXCEPT ![w.tileIndex] = "worker"]
  /\ threads' = Advance(w, "commit")
  /\ UNCHANGED <<flagVars, videoVars, setVars, gridVars, staleItems, camVars,
                 prevVars, generation, runningThreads,
                 queueVars, tileVars, mainVars>>

\* Mutants of the commit test: no test at all, the comparison reversed,
\* and a strict comparison.
CommitAcceptsAlways(tileGeneration, g) == TRUE
CommitAcceptsReversed(tileGeneration, g) == tileGeneration >= g
CommitAcceptsStrict(tileGeneration, g) == tileGeneration < g

\* if (tile.generation <= generation) { ... }
CommitAccepts(tileGeneration, g) == tileGeneration <= g

\* Mutant of the commit: the pixels are stored, the view is not.
CommittedTileWithoutView(t, w) ==
  [t EXCEPT !.generation = w.generation, !.pixels = w.pixels,
            !.hasComputed = TRUE]

\* The tile after an accepted commit of worker w.
CommittedTile(t, w) ==
  [t EXCEPT !.generation = w.generation, !.pixels = w.pixels,
            !.hasComputed = TRUE,
            !.cx = w.cx, !.cy = w.cy, !.cz = w.cz]

WorkerCommit(w) ==
  /\ ProcessAlive
  /\ w.pc = "commit"
  /\ IF CommitAccepts(tiles[w.tileIndex].generation, w.generation)
       THEN /\ tiles' = [tiles EXCEPT
                           ![w.tileIndex] = CommittedTile(@, w)]
            /\ committedGeneration' =
                 [committedGeneration EXCEPT ![w.tileIndex] = w.generation]
       ELSE UNCHANGED <<tiles, committedGeneration>>
  /\ texMutex' = Unlock(texMutex, w.tileIndex)
  /\ threads' = Advance(w, "dec")
  /\ UNCHANGED <<flagVars, videoVars, setVars, gridVars, staleItems, camVars,
                 prevVars, generation, runningThreads,
                 queueVars, allocated, mainVars>>

\* Mutant of the decrement: the counter keeps its value.
FetchSubNone(n) == n

\* runningThreads.fetch_sub(1, std::memory_order_relaxed)
FetchSub(n) == n - 1

\* runningThreads.fetch_sub(1); the thread ends
WorkerExit(w) ==
  /\ ProcessAlive
  /\ w.pc = "dec"
  /\ runningThreads' = FetchSub(runningThreads)
  /\ threads' = threads \ {w}
  /\ UNCHANGED <<flagVars, videoVars, setVars, gridVars, staleItems, camVars,
                 prevVars, generation, queueVars,
                 tileVars, texMutex, mainVars>>

(* ------------------------- updateTilesParallel ------------------------- *)
\* Mutant of the erase: the pending item stays in the queue.
EraseNone(q, i) == q

\* pendingTiles.erase(it) for the first item whose index is i
RECURSIVE EraseFirst(_, _)
EraseFirst(q, i) ==
  IF q = <<>> THEN q
  ELSE IF Head(q).index = i THEN Tail(q)
  ELSE <<Head(q)>> \o EraseFirst(Tail(q), i)

\* The scheduleTile lambda, on the pair (queue, scheduled set).
scheduleTile(qs, i, cx, cy, cz, g) ==
  LET pendingTile == [index |-> i, cx |-> cx, cy |-> cy, cz |-> cz,
                      generation |-> g]
      q == IF AVOID_DUPLICATES /\ i \in qs.scheduled
             THEN EraseFirst(qs.queue, i) ELSE qs.queue
  IN  [queue |-> Append(q, pendingTile), scheduled |-> qs.scheduled \cup {i}]

\* scheduleTile applied to order[k], order[k+1], ...
RECURSIVE ScheduleFrom(_, _, _, _, _, _, _)
ScheduleFrom(qs, order, k, cx, cy, cz, g) ==
  IF k > Len(order) THEN qs
  ELSE ScheduleFrom(scheduleTile(qs, order[k], cx, cy, cz, g),
                    order, k + 1, cx, cy, cz, g)

\* The detached branch of updateTilesParallel on a grid of tx columns and
\* ty rows.
updateTilesParallelOn(tx, ty, spiral, qs, cx, cy, cz, g, diffX, diffY) ==
  ScheduleFrom(qs, ScheduleOrderOn(tx, ty, spiral, diffX, diffY), 1,
               cx, cy, cz, g)

\* The detached branch of updateTilesParallel.
updateTilesParallel(qs, cx, cy, cz, g, diffX, diffY) ==
  ScheduleFrom(qs, ScheduleOrder(diffX, diffY), 1, cx, cy, cz, g)

\* The items of queue q behind which the queue holds another item of the
\* same tile.
StaleIn(q) ==
  {q[k] : k \in {n \in 1 .. Len(q) :
                   \E m \in (n + 1) .. Len(q) : q[m].index = q[n].index}}

\* The workers the synchronous branch creates, one per tile.
SyncWorkers(cx, cy, cz, g) ==
  {NewThread(i, cx, cy, cz, g) : i \in TileIndices}

(* --------------------------- controlling thread ------------------------ *)
\* Keys W/A/S/D/UP/DOWN/R move the camera.
MoveCamera ==
  /\ mainPc = "input"
  /\ \E x \in CoordsX, y \in CoordsY, z \in Zooms :
       /\ <<x, y, z>> # <<cameraX, cameraY, zoom>>
       /\ cameraX' = x /\ cameraY' = y /\ zoom' = z
  /\ UNCHANGED <<flagVars, videoVars, setVars, gridVars, staleItems, prevVars,
                 generation, runningThreads, queueVars,
                 tileVars, texMutex, threads, mainVars>>

\* Mutant of the increment: the counter keeps its value.
SameGeneration(g) == g

\* generation++
NextGeneration(g) == g + 1

\* The lambda customUpdateTilesParallel, called when the global SET has
\* the value set.
customUpdateTilesParallelWith(set) ==
  /\ mainPc \in {"first", "input"}
  /\ generation < MaxGeneration
  /\ SET' = set
  /\ issuedSets' = Append(issuedSets, set)
  /\ IF DETACHED_MODE
       THEN LET qs == updateTilesParallel(
                        [queue |-> pendingTiles, scheduled |-> tilesScheduled],
                        cameraX, cameraY, zoom, generation,
                        prevCamX - cameraX, prevCamY - cameraY)
            IN  /\ pendingTiles' = qs.queue
                /\ tilesScheduled' = qs.scheduled
                /\ staleItems' = staleItems \cup StaleIn(qs.queue)
                /\ prevCamX' = cameraX
                /\ prevCamY' = cameraY
                /\ prevZoom' = zoom
                /\ generation' = NextGeneration(generation)
                /\ mainPc' = "input"
                /\ UNCHANGED threads
       ELSE /\ threads' = threads \cup
                            SyncWorkers(cameraX, cameraY, zoom, generation)
            /\ mainPc' = "join"
            /\ UNCHANGED <<queueVars, prevVars, generation, staleItems>>
  /\ UNCHANGED <<flagVars, videoVars, gridVars, camVars, runningThreads,
                 tileVars, texMutex,
                 loopIdx, drawPass, frame>>

\* The first render, and the re-render when the view has moved past the
\* threshold or SPACE or R is pressed.
customUpdateTilesParallel == customUpdateTilesParallelWith(SET)

\* t.join() for every worker of the batch, then the rest of
\* customUpdateTilesParallel.
JoinWorkers ==
  /\ mainPc = "join"
  /\ threads = {}
  /\ prevCamX' = cameraX
  /\ prevCamY' = cameraY
  /\ prevZoom' = zoom
  /\ generation' = NextGeneration(generation)
  /\ mainPc' = "input"
  /\ UNCHANGED <<flagVars, videoVars, setVars, gridVars, staleItems, camVars,
                 runningThreads, queueVars, tileVars,
                 texMutex, threads, loopIdx, drawPass, frame>>

\* The input section of a frame ends.
EndInput ==
  /\ mainPc = "input"
  /\ mainPc' = "dispatch"
  /\ UNCHANGED <<flagVars, videoVars, setVars, gridVars, staleItems, camVars,
                 prevVars, generation, runningThreads,
                 queueVars, tileVars, texMutex, threads, loopIdx, drawPass, frame>>

\* Mutant of the loop condition: the thread counter is not consulted.
DispatchGateQueueOnly(running, queue) == queue # <<>>

\* while (runningThreads.load() < MAX_THREADS && !pendingTiles.empty())
DispatchGate(running, queue) == running < MAX_THREADS /\ queue # <<>>

DispatchCheck ==
  /\ mainPc = "dispatch"
  /\ IF DispatchGate(runningThreads, pendingTiles)
       THEN mainPc' = "pop" /\ UNCHANGED loopIdx
       ELSE mainPc' = "promote" /\ loopIdx' = 0
  /\ UNCHANGED <<flagVars, videoVars, setVars, gridVars, staleItems, camVars,
                 prevVars, generation, runningThreads,
                 queueVars, tileVars, texMutex, threads, drawPass, frame>>

\* Mutant of the filter: an item of the tile's own generation is dropped.
DispatchFilterStrict(next, tileGeneration) ==
  next.generation - tileGeneration > 0

\* Mutant of the filter: the comparison is turned around.
DispatchFilterReversed(next, tileGeneration) ==
  next.generation - tileGeneration <= 0

\* if (next.generation - tile.generation >= 0)
DispatchFilter(next, tileGeneration) == next.generation - tileGeneration >= 0

\* Mutant of front(): the item at the tail is taken.
QueueBack(q) == q[Len(q)]

\* PendingTile next = pendingTiles.front();
QueueFront(q) == Head(q)

\* The body of the dispatch loop.
DispatchPop ==
  /\ mainPc = "pop"
  /\ LET next == QueueFront(pendingTiles)
         spawn == DispatchFilter(next, tiles[next.index].generation)
     IN  /\ spawn => Cardinality(threads) < MaxLiveThreads
         /\ pendingTiles' = Tail(pendingTiles)
         /\ tilesScheduled' = tilesScheduled \ {next.index}
         /\ threads' = IF spawn
                         THEN threads \cup
                                {NewThread(next.index, next.cx, next.cy,
                                           next.cz, next.generation)}
                         ELSE threads
  /\ mainPc' = "dispatch"
  /\ UNCHANGED <<flagVars, videoVars, setVars, gridVars, staleItems, camVars,
                 prevVars, generation, runningThreads,
                 tileVars, texMutex, loopIdx, drawPass, frame>>

\* Where the controlling thread stands after it is done with tile i of
\* the promotion loop.
AfterPromote(i) ==
  IF i + 1 < TileCount
    THEN /\ mainPc' = "promote" /\ loopIdx' = i + 1
         /\ UNCHANGED <<drawPass, frame>>
    ELSE /\ mainPc' = "draw" /\ loopIdx' = 0
         /\ drawPass' = IF USE_OLD_TEXTURES THEN 0 ELSE 2
         /\ frame' = <<>>

\* if (!tile.hasComputed) { continue; }
PromoteCheck ==
  /\ mainPc = "promote"
  /\ IF tiles[loopIdx].hasComputed
       THEN mainPc' = "promoteLock" /\ UNCHANGED <<loopIdx, drawPass, frame>>
       ELSE AfterPromote(loopIdx)
  /\ UNCHANGED <<flagVars, videoVars, setVars, gridVars, staleItems, camVars,
                 prevVars, generation, runningThreads,
                 queueVars, tileVars, texMutex, threads>>

PromoteLock ==
  /\ mainPc = "promoteLock"
  /\ texMutex[loopIdx] = "free"
  /\ texMutex' = [texMutex EXCEPT ![loopIdx] = "main"]
  /\ mainPc' = "promoteBody"
  /\ UNCHANGED <<flagVars, videoVars, setVars, gridVars, staleItems, camVars,
                 prevVars, generation, runningThreads,
                 queueVars, tileVars, threads, loopIdx, drawPass, frame>>

\* Mutant of the rotation: the current layer is copied down first, so the
\* veryOld layer receives it too.
RotateLayersCurrentFirst(t) ==
  [t EXCEPT !.veryOldTexture = t.texture,
            !.veryOldX = t.x, !.veryOldY = t.y, !.veryOldZ = t.z,
            !.oldTexture = t.texture,
            !.oldX = t.x, !.oldY = t.y, !.oldZ = t.z]

\* Mutant of the rotation: the textures move down, the placement data do
\* not.
RotateLayersWithoutPlacement(t) ==
  [t EXCEPT !.veryOldTexture = t.oldTexture, !.oldTexture = t.texture]

\* The texture -> oldTexture -> veryOldTexture rotation.
RotateLayers(t) ==
  [t EXCEPT !.veryOldTexture = t.oldTexture,
            !.veryOldX = t.oldX, !.veryOldY = t.oldY, !.veryOldZ = t.oldZ,
            !.oldTexture = t.texture,
            !.oldX = t.x, !.oldY = t.y, !.oldZ = t.z]

\* What UpdateTexture can read through tile.pixels: the buffer's contents,
\* or anything at all when the buffer is not allocated.
UploadOutcomes(p) ==
  IF p \in allocated THEN {p}
  ELSE {BlankTexture} \cup
       [tileIndex : TileIndices, cx : CoordsX, cy : CoordsY, cz : Zooms,
        generation : Generations]

\* Mutant of the upload: hasComputed keeps its value.
UploadTileKeepFlag(i, t, content) ==
  [t EXCEPT !.texture = content,
            !.x = TileOriginX(i, t.cx, t.cz),
            !.y = TileOriginY(i, t.cy, t.cz),
            !.z = t.cz]

\* UpdateTexture, the new placement, delete[] and hasComputed = false.
UploadTile(i, t, content) ==
  [t EXCEPT !.texture = content,
            !.x = TileOriginX(i, t.cx, t.cz),
            !.y = TileOriginY(i, t.cy, t.cz),
            !.z = t.cz,
            !.hasComputed = FALSE]

PromoteBody ==
  /\ mainPc = "promoteBody"
  /\ LET t == tiles[loopIdx]
         rotated == IF USE_OLD_TEXTURES THEN RotateLayers(t) ELSE t
     IN  /\ \E content \in UploadOutcomes(t.pixels) :
               tiles' = [tiles EXCEPT
                           ![loopIdx] = UploadTile(loopIdx, rotated, content)]
         /\ allocated' = allocated \ {t.pixels}
  /\ texMutex' = Unlock(texMutex, loopIdx)
  /\ AfterPromote(loopIdx)
  /\ UNCHANGED <<flagVars, videoVars, setVars, gridVars, staleItems, camVars,
                 prevVars, generation, runningThreads,
                 queueVars, threads, committedGeneration>>

\* A drawing loop takes the lock of the tile it draws.
DrawLock ==
  /\ mainPc = "draw"
  /\ texMutex[loopIdx] = "free"
  /\ texMutex' = [texMutex EXCEPT ![loopIdx] = "main"]
  /\ mainPc' = "drawTile"
  /\ UNCHANGED <<flagVars, videoVars, setVars, gridVars, staleItems, camVars,
                 prevVars, generation, runningThreads,
                 queueVars, tileVars, threads, loopIdx, drawPass, frame>>

\* Mutant of the passes: the current textures are drawn first and the
\* veryOld ones last.
DrawnLayerReversed(pass) ==
  CASE pass = 0 -> "current" [] pass = 1 -> "old" [] OTHER -> "veryOld"

\* The texture each drawing loop passes to DrawTexturePro.
DrawnLayer(pass) ==
  CASE pass = 0 -> "veryOld" [] pass = 1 -> "old" [] OTHER -> "current"

\* DrawTexturePro of the pass's layer, then the lock is released; passes
\* 0, 1, 2 draw the veryOld, old and current textures.
DrawTile ==
  /\ mainPc = "drawTile"
  /\ frame' = Append(frame, [layer |-> DrawnLayer(drawPass),
                              tile |-> loopIdx])
  /\ texMutex' = Unlock(texMutex, loopIdx)
  /\ IF loopIdx + 1 < TileCount
       THEN /\ mainPc' = "draw" /\ loopIdx' = loopIdx + 1
            /\ UNCHANGED drawPass
       ELSE IF drawPass < 2
         THEN /\ mainPc' = "draw" /\ loopIdx' = 0
              /\ drawPass' = drawPass + 1
         ELSE /\ mainPc' = "input" /\ loopIdx' = 0 /\ drawPass' = 0
  /\ UNCHANGED <<flagVars, videoVars, setVars, gridVars, staleItems, camVars,
                 prevVars, generation, runningThreads,
                 queueVars, tileVars, threads>>

\* WindowShouldClose(): the loop ends and the process exits.
CloseWindow ==
  /\ mainPc = "input"
  /\ mainPc' = "closed"
  /\ UNCHANGED <<flagVars, videoVars, setVars, gridVars, staleItems, camVars,
                 prevVars, generation, runningThreads,
                 queueVars, tileVars, texMutex, threads, loopIdx, drawPass, frame>>

(* ------------------------------ behaviour ------------------------------ *)
MainLoop ==
  \/ EndInput
  \/ DispatchCheck
  \/ DispatchPop
  \/ PromoteCheck
  \/ PromoteLock
  \/ PromoteBody
  \/ DrawLock
  \/ DrawTile

Worker ==
  \/ \E w \in threads : WorkerStart(w)
  \/ \E w \in threads : WorkerIntentLock(w)
  \/ \E w \in threads : WorkerIntent(w)
  \/ \E w \in threads : WorkerCompute(w)
  \/ \E w \in threads : WorkerCommitLock(w)
  \/ \E w \in threads : WorkerCommit(w)
  \/ \E w \in threads : WorkerExit(w)

\* Streaming (detached) mode with the default flags.
Next ==
  \/ MoveCamera
  \/ customUpdateTilesParallel
  \/ CloseWindow
  \/ MainLoop
  \/ Worker

Spec == Init /\ [][Next]_vars

\* The control loop keeps running and every worker that can take a step
\* eventually takes one; view changes and closing the window are up to
\* the user.
FairSpec == Spec /\ WF_vars(MainLoop) /\ SF_vars(Worker)

(* ------------------------ --no-avoid-duplicates ------------------------ *)
\* Streaming mode with AVOID_DUPLICATES off.
InitDup == InitWith(TRUE, FALSE, TRUE)

SpecDup == InitDup /\ [][Next]_vars

(* ------------------------- resource exhaustion ------------------------- *)
\* std::thread's constructor throws std::system_error when the thread
\* cannot be started.  The item has been popped and erased from the
\* scheduled set by then; nothing catches the exception, so it leaves main
\* and std::terminate ends the process.
ThreadCreationFails ==
  /\ mainPc = "pop"
  /\ LET next == QueueFront(pendingTiles)
     IN  /\ DispatchFilter(next, tiles[next.index].generation)
         /\ pendingTiles' = Tail(pendingTiles)
         /\ tilesScheduled' = tilesScheduled \ {next.index}
  /\ mainPc' = "terminated"
  /\ UNCHANGED <<flagVars, videoVars, setVars, gridVars, staleItems, camVars,
                 prevVars, generation,
                 runningThreads, tileVars, texMutex, threads, loopIdx,
                 drawPass, frame>>

\* new Color[...] throws std::bad_alloc.  Nothing catches it in the thread
\* function, so std::terminate ends the process; the worker reaches neither
\* its commit nor its fetch_sub.
WorkerAllocFails(w) ==
  /\ ProcessAlive
  /\ w.pc = "compute"
  /\ threads' = Advance(w, "bad_alloc")
  /\ mainPc' = "terminated"
  /\ UNCHANGED <<flagVars, videoVars, setVars, gridVars, staleItems, camVars,
                 prevVars, generation,
                 runningThreads, queueVars, tileVars, texMutex, loopIdx,
                 drawPass, frame>>

\* Streaming mode on a host that can run out of threads and memory.
NextFail ==
  \/ Next
  \/ ThreadCreationFails
  \/ \E w \in threads : WorkerAllocFails(w)

SpecFail == Init /\ [][NextFail]_vars

(* --------------------------- synchronous mode -------------------------- *)
\* --no-detached: every view change runs its workers to the end inside
\* updateTilesParallel; the queue stays empty and the dispatch loop never
\* enters its body.
InitSync == InitWith(FALSE, TRUE, TRUE)

MainLoopSync ==
  \/ EndInput
  \/ DispatchCheck
  \/ PromoteCheck
  \/ PromoteLock
  \/ PromoteBody
  \/ DrawLock
  \/ DrawTile

NextSync ==
  \/ MoveCamera
  \/ customUpdateTilesParallel
  \/ JoinWorkers
  \/ CloseWindow
  \/ MainLoopSync
  \/ Worker

SpecSync == InitSync /\ [][NextSync]_vars

(* ------------------- workers of one tile, any start order -------------- *)
\* Tasks of generations 0 .. NumTasks-1 for one tile.
NumTasks == 3

\* The work item of generation g for tile i; each generation has its own
\* view.
TaskItem(i, g) ==
  [index |-> i, cx |-> g, cy |-> 0, cz |-> 1, generation |-> g]

TaskOrders ==
  {o \in [1 .. NumTasks -> 0 .. (NumTasks - 1)] :
     \A a, b \in 1 .. NumTasks : a # b => o[a] # o[b]}

\* The tile whose tasks are run is the one member of tilesScheduled; the
\* queue holds its work items in the order in which they will be started.
InitTasks ==
  \E i \in TileIndices, o \in TaskOrders :
    /\ DETACHED_MODE = TRUE
    /\ AVOID_DUPLICATES = TRUE
    /\ USE_OLD_TEXTURES = TRUE
    /\ cameraX = 0 /\ cameraY = 0 /\ zoom = 1
    /\ prevCamX = 0 /\ prevCamY = 0 /\ prevZoom = 1
    /\ generation = NumTasks
    /\ runningThreads = 0
    /\ pendingTiles = [k \in 1 .. NumTasks |-> TaskItem(i, o[k])]
    /\ tilesScheduled = {i}
    /\ tiles = [j \in TileIndices |-> InitialTile]
    /\ texMutex = [j \in TileIndices |-> "free"]
    /\ threads = {}
    /\ allocated = {}
    /\ committedGeneration = [j \in TileIndices |-> 0]
    /\ staleItems = {}
    /\ SET = 0
    /\ NoVideo
    /\ issuedSets = [g \in 1 .. NumTasks |-> 0]
    /\ gridX = TILES_X /\ gridY = TILES_Y
    /\ spiralIndices = spiralIndicesOutward
    /\ mainPc = "tasks"
    /\ loopIdx = 0
    /\ drawPass = 0
    /\ frame = <<>>

\* std::thread(computeTileThread, next.index, ...) for the next item.
StartTask ==
  /\ mainPc = "tasks"
  /\ pendingTiles # <<>>
  /\ LET next == Head(pendingTiles)
     IN  threads' = threads \cup
                      {NewThread(next.index, next.cx, next.cy, next.cz,
                                 next.generation)}
  /\ pendingTiles' = Tail(pendingTiles)
  /\ UNCHANGED <<flagVars, videoVars, setVars, gridVars, staleItems, camVars,
                 prevVars, generation, runningThreads,
                 tilesScheduled, tileVars, texMutex, mainVars>>

NextTasks ==
  \/ StartTask
  \/ Worker

SpecTasks == InitTasks /\ [][NextTasks]_vars

(* --------------------------- the set keys ------------------------------ *)
\* The number of fractal sets SET ranges over.
SetCount == 2

\* KEY_P: SET = (SET + 1) % 7
SetAfter(set) == (set + 1) % SetCount

\* KEY_O: SET = (SET - 1) % 7; if (SET < 0) { SET = 7 + SET; }
SetBefore(set) == IF set - 1 < 0 THEN SetCount + (set - 1) ELSE set - 1

\* KEY_O or KEY_P is pressed: SET changes and customUpdateTilesParallel is
\* called.
ChangeSet ==
  /\ mainPc = "input"
  /\ \E set \in {SetBefore(SET), SetAfter(SET)} :
       customUpdateTilesParallelWith(set)

\* The pixel loop of a worker has got through some of its pixels: it has
\* read the global SET as it is now.
WorkerComputeSome(w) ==
  /\ ProcessAlive
  /\ w.pc = "compute"
  /\ SET \notin w.sets
  /\ allocated' = allocated \cup {PixelsOf(w)}
  /\ threads' = (threads \ {w}) \cup {[w EXCEPT !.sets = @ \cup {SET}]}
  /\ UNCHANGED <<flagVars, videoVars, setVars, gridVars, staleItems, camVars,
                 prevVars,
                 generation, runningThreads, queueVars, tiles,
                 committedGeneration, texMutex, mainVars>>

\* Streaming mode with the keys that change the set and with the pixel
\* loop in two parts.
NextSetKeys ==
  \/ Next
  \/ ChangeSet
  \/ \E w \in threads : WorkerComputeSome(w)

SpecSet == Init /\ [][NextSetKeys]_vars

(* ------------------- the tile order on grids of any size --------------- *)
\* View changes issued by the ordering specification.
MaxOrderCalls == 2

GridSizes == 1 .. MaxGrid
GridIndices == 0 .. (gridX * gridY - 1)
\* Camera positions of the ordering specification: the camera starts at
\* 0 and moves by one unit either way on each axis.
OrderCoords == -1 .. 1

\* Before the static initialisers have run, for every grid size and both
\* settings of AVOID_DUPLICATES.
InitOrder ==
  /\ gridX \in GridSizes /\ gridY \in GridSizes
  /\ spiralIndices = <<>>
  /\ DETACHED_MODE = TRUE
  /\ AVOID_DUPLICATES \in BOOLEAN
  /\ USE_OLD_TEXTURES = TRUE
  /\ cameraX = 0 /\ cameraY = 0 /\ zoom = 1
  /\ prevCamX = 0 /\ prevCamY = 0 /\ prevZoom = 1
  /\ generation = 0
  /\ runningThreads = 0
  /\ pendingTiles = <<>>
  /\ tilesScheduled = {}
  /\ tiles = [i \in GridIndices |-> InitialTile]
  /\ texMutex = [i \in GridIndices |-> "free"]
  /\ threads = {}
  /\ allocated = {}
  /\ committedGeneration = [i \in GridIndices |-> 0]
  /\ staleItems = {}
  /\ SET = 0
  /\ NoVideo
  /\ issuedSets = <<>>
  /\ mainPc = "static"
  /\ loopIdx = 0
  /\ drawPass = 0
  /\ frame = <<>>

\* std::vector<int> spiralIndicesOutward =
\*   getSpiralIndicesOutward(TILES_X, TILES_Y);
StaticInit ==
  /\ mainPc = "static"
  /\ spiralIndices' = getSpiralIndicesOutward(gridX, gridY)
  /\ mainPc' = "first"
  /\ UNCHANGED <<flagVars, videoVars, setVars, gridX, gridY, staleItems,
                 camVars, prevVars, generation,
                 runningThreads, queueVars, tileVars, texMutex, threads,
                 loopIdx, drawPass, frame>>

\* Keys W/A/S/D move the camera on both axes.
MoveCameraAny ==
  /\ mainPc = "input"
  /\ \E x \in OrderCoords, y \in OrderCoords :
       /\ <<x, y>> # <<cameraX, cameraY>>
       /\ cameraX' = x /\ cameraY' = y
  /\ UNCHANGED <<flagVars, videoVars, setVars, gridVars, staleItems, zoom,
                 prevVars, generation,
                 runningThreads, queueVars, tileVars, texMutex, threads,
                 mainVars>>

\* customUpdateTilesParallel in detached mode, on the grid gridX x gridY.
customUpdateTilesParallelOn ==
  /\ mainPc \in {"first", "input"}
  /\ generation < MaxOrderCalls
  /\ LET qs == updateTilesParallelOn(
                  gridX, gridY, spiralIndices,
                  [queue |-> pendingTiles, scheduled |-> tilesScheduled],
                  cameraX, cameraY, zoom, generation,
                  prevCamX - cameraX, prevCamY - cameraY)
     IN  /\ pendingTiles' = qs.queue
         /\ tilesScheduled' = qs.scheduled
         /\ staleItems' = staleItems \cup StaleIn(qs.queue)
  /\ prevCamX' = cameraX
  /\ prevCamY' = cameraY
  /\ prevZoom' = zoom
  /\ generation' = NextGeneration(generation)
  /\ issuedSets' = Append(issuedSets, SET)
  /\ mainPc' = "input"
  /\ UNCHANGED <<flagVars, videoVars, SET, gridVars, camVars, runningThreads,
                 tileVars,
                 texMutex, threads, loopIdx, drawPass, frame>>

NextOrder ==
  \/ StaticInit
  \/ MoveCameraAny
  \/ customUpdateTilesParallelOn

SpecOrder == InitOrder /\ [][NextOrder]_vars

(* ---------------- scheduleTile, one call at a time --------------------- *)
\* The queue specification schedules tiles 0 .. MaxQueueTile, for
\* generations up to MaxQueueGeneration and views 0 .. MaxQueueView, while
\* the queue holds fewer than MaxQueueLen items.
MaxQueueTile == 2
MaxQueueGeneration == 2
MaxQueueView == 1
MaxQueueLen == 4

\* The empty queue of a grid of MaxQueueTile + 1 tiles in one row, for
\* both settings of AVOID_DUPLICATES.
InitQueue ==
  /\ gridX = MaxQueueTile + 1 /\ gridY = 1
  /\ spiralIndices = getSpiralIndicesOutward(MaxQueueTile + 1, 1)
  /\ DETACHED_MODE = TRUE
  /\ AVOID_DUPLICATES \in BOOLEAN
  /\ USE_OLD_TEXTURES = TRUE
  /\ cameraX = 0 /\ cameraY = 0 /\ zoom = 1
  /\ prevCamX = 0 /\ prevCamY = 0 /\ prevZoom = 1
  /\ generation = 0
  /\ runningThreads = 0
  /\ pendingTiles = <<>>
  /\ tilesScheduled = {}
  /\ tiles = [i \in GridIndices |-> InitialTile]
  /\ texMutex = [i \in GridIndices |-> "free"]
  /\ threads = {}
  /\ allocated = {}
  /\ committedGeneration = [i \in GridIndices |-> 0]
  /\ staleItems = {}
  /\ SET = 0
  /\ NoVideo
  /\ issuedSets = <<>>
  /\ mainPc = "schedule"
  /\ loopIdx = 0
  /\ drawPass = 0
  /\ frame = <<>>

\* One call of the scheduleTile lambda, for any tile, under the view and
\* generation captured by the lambda; generations are issued in
\* non-decreasing order.
ScheduleOne ==
  /\ mainPc = "schedule"
  /\ Len(pendingTiles) < MaxQueueLen
  /\ \E i \in GridIndices, cx \in 0 .. MaxQueueView,
        g \in generation .. MaxQueueGeneration :
       LET qs == scheduleTile(
                   [queue |-> pendingTiles, scheduled |-> tilesScheduled],
                   i, cx, cameraY, zoom, g)
       IN  /\ pendingTiles' = qs.queue
           /\ tilesScheduled' = qs.scheduled
           /\ staleItems' = staleItems \cup StaleIn(qs.queue)
           /\ cameraX' = cx
           /\ generation' = g
  /\ UNCHANGED <<flagVars, videoVars, setVars, gridVars, cameraY, zoom,
                 prevVars,
                 runningThreads, tileVars, texMutex, threads, mainVars>>

NextQueue == ScheduleOne

SpecQueue == InitQueue /\ [][NextQueue]_vars

(* ------------------- the legacy viewer, src/main.cpp ------------------- *)
\* The legacy viewer has no queue, no thread counter and no set keys;
\* FAST_MODE is false, so updateTilesParallel starts one worker per tile
\* and joins them.  Its main thread is at "first" and "second" before the
\* two calls of the first render and at "joinFirst", "joinSecond" and
\* "join" inside a call, waiting for the workers.
\* View changes of the legacy loop are issued while generation is below
\* this bound.
MaxLegacyGeneration == 4

\* (tileX + 1) * partWidth - SCREEN_WIDTH / 2.0) / prevZoom + prevCamX
LegacyCornerX(i, cx, cz) ==
  ((2 * (tileX(i) + 1) * TILE_WIDTH - SCREEN_WIDTH) * Factorial(MaxZoom))
     \div cz + cx * WorldUnit

\* (tileY + 1) * partHeight - SCREEN_HEIGHT / 2.0) / prevZoom + prevCamY
LegacyCornerY(i, cy, cz) ==
  ((2 * (tileY(i) + 1) * TILE_HEIGHT - SCREEN_HEIGHT) * Factorial(MaxZoom))
     \div cz + cy * WorldUnit

\* A value-initialised Tile of the legacy viewer.
LegacyInitialTile ==
  [generation |-> 0, hasComputed |-> FALSE, pixels |-> NULL,
   texture |-> BlankTexture, oldTexture |-> BlankTexture,
   a1 |-> 0, b1 |-> 0, a2 |-> 0, b2 |-> 0,
   olda1 |-> 0, oldb1 |-> 0, olda2 |-> 0, oldb2 |-> 0]

\* int generation = 2; the other locals and globals of main at start-up.
InitLegacy ==
  /\ DETACHED_MODE = FALSE
  /\ AVOID_DUPLICATES = FALSE
  /\ USE_OLD_TEXTURES = TRUE
  /\ SET = 0
  /\ NoVideo
  /\ issuedSets = <<>>
  /\ cameraX = 0 /\ cameraY = 0 /\ zoom = 1
  /\ prevCamX = 0 /\ prevCamY = 0 /\ prevZoom = 1
  /\ generation = 2
  /\ runningThreads = 0
  /\ pendingTiles = <<>>
  /\ tilesScheduled = {}
  /\ tiles = [i \in TileIndices |-> LegacyInitialTile]
  /\ texMutex = [i \in TileIndices |-> "free"]
  /\ threads = {}
  /\ allocated = {}
  /\ committedGeneration = [i \in TileIndices |-> 0]
  /\ staleItems = {}
  /\ gridX = TILES_X /\ gridY = TILES_Y
  /\ spiralIndices = spiralIndicesOutward
  /\ mainPc = "first"
  /\ loopIdx = 0
  /\ drawPass = 0
  /\ frame = <<>>

\* if (tile.hasComputed) return;
LegacyWorkerCheck(w) ==
  /\ w.pc = "start"
  /\ threads' = IF tiles[w.tileIndex].hasComputed
                  THEN threads \ {w}
                  ELSE Advance(w, "intentLock")
  /\ UNCHANGED <<flagVars, videoVars, setVars, gridVars, staleItems, camVars,
                 prevVars,
                 generation, runningThreads, queueVars, tileVars, texMutex,
                 mainVars>>

\* tile.generation = generation; under the lock, without a test
LegacyWorkerIntent(w) ==
  /\ w.pc = "intent"
  /\ tiles' = [tiles EXCEPT ![w.tileIndex].generation = w.generation]
  /\ texMutex' = Unlock(texMutex, w.tileIndex)
  /\ threads' = Advance(w, "compute")
  /\ UNCHANGED <<flagVars, videoVars, setVars, gridVars, staleItems, camVars,
                 prevVars,
                 generation, runningThreads, queueVars, allocated,
                 committedGeneration, mainVars>>

\* if (tile.generation <= generation) { tile.pixels = pixels;
\* tile.hasComputed = true; }; the thread ends
LegacyWorkerCommit(w) ==
  /\ w.pc = "commit"
  /\ IF CommitAccepts(tiles[w.tileIndex].generation, w.generation)
       THEN /\ tiles' = [tiles EXCEPT ![w.tileIndex].pixels = w.pixels,
                                      ![w.tileIndex].hasComputed = TRUE]
            /\ committedGeneration' =
                 [committedGeneration EXCEPT ![w.tileIndex] = w.generation]
       ELSE UNCHANGED <<tiles, committedGeneration>>
  /\ texMutex' = Unlock(texMutex, w.tileIndex)
  /\ threads' = threads \ {w}
  /\ UNCHANGED <<flagVars, videoVars, setVars, gridVars, staleItems, camVars,
                 prevVars,
                 generation, runningThreads, queueVars, allocated, mainVars>>

LegacyWorker ==
  \/ \E w \in threads : LegacyWorkerCheck(w)
  \/ \E w \in threads : WorkerIntentLock(w)
  \/ \E w \in threads : LegacyWorkerIntent(w)
  \/ \E w \in threads : WorkerCompute(w)
  \/ \E w \in threads : WorkerCommitLock(w)
  \/ \E w \in threads : LegacyWorkerCommit(w)

\* The generation the lambda customUpdateTilesParallel hands to
\* updateTilesParallel when it is called with generation g:
\* updateTilesParallel(cameraX, cameraY, zoom, 0);
LegacyPassedGeneration(g) == 0

\* The lambda called with generation g, up to the join of the workers.
LegacyUpdateTiles(g) ==
  /\ prevCamX' = cameraX
  /\ prevCamY' = cameraY
  /\ prevZoom' = zoom
  /\ threads' = SyncWorkers(cameraX, cameraY, zoom, LegacyPassedGeneration(g))
  /\ UNCHANGED <<flagVars, videoVars, setVars, gridVars, staleItems, camVars,
                 runningThreads, queueVars, tileVars, texMutex, loopIdx,
                 drawPass, frame>>

\* customUpdateTilesParallel(cameraX, cameraY, zoom, 0); and then
\* customUpdateTilesParallel(cameraX, cameraY, zoom, 1);
LegacyFirstRender ==
  /\ \/ mainPc = "first" /\ mainPc' = "joinFirst" /\ LegacyUpdateTiles(0)
     \/ mainPc = "second" /\ mainPc' = "joinSecond" /\ LegacyUpdateTiles(1)
  /\ UNCHANGED generation

\* A key or the movement threshold: generation++ and the call of the
\* lambda with the new value.
LegacyViewChange ==
  /\ mainPc = "input"
  /\ generation < MaxLegacyGeneration
  /\ generation' = generation + 1
  /\ LegacyUpdateTiles(generation + 1)
  /\ mainPc' = "join"

\* for (auto& t : workers) t.join(); the call returns.
LegacyJoin ==
  /\ mainPc \in {"joinFirst", "joinSecond", "join"}
  /\ threads = {}
  /\ mainPc' = IF mainPc = "joinFirst" THEN "second" ELSE "input"
  /\ UNCHANGED <<flagVars, videoVars, setVars, gridVars, staleItems, camVars,
                 prevVars,
                 generation, runningThreads, queueVars, tileVars, texMutex,
                 threads, loopIdx, drawPass, frame>>

\* The input section of a frame ends; the legacy loop goes on with the
\* promotion loop.
LegacyEndInput ==
  /\ mainPc = "input"
  /\ mainPc' = "promote"
  /\ loopIdx' = 0
  /\ UNCHANGED <<flagVars, videoVars, setVars, gridVars, staleItems, camVars,
                 prevVars,
                 generation, runningThreads, queueVars, tileVars, texMutex,
                 threads, drawPass, frame>>

\* Where the main thread stands after tile i of the legacy promotion loop;
\* the drawing has the pass of the old textures and the pass of the
\* current ones.
LegacyAfterPromote(i) ==
  IF i + 1 < TileCount
    THEN /\ mainPc' = "promote" /\ loopIdx' = i + 1
         /\ UNCHANGED <<drawPass, frame>>
    ELSE /\ mainPc' = "draw" /\ loopIdx' = 0
         /\ drawPass' = IF USE_OLD_TEXTURES THEN 1 ELSE 2
         /\ frame' = <<>>

\* if (!tile.hasComputed) continue;
LegacyPromoteCheck ==
  /\ mainPc = "promote"
  /\ IF tiles[loopIdx].hasComputed
       THEN mainPc' = "promoteLock" /\ UNCHANGED <<loopIdx, drawPass, frame>>
       ELSE LegacyAfterPromote(loopIdx)
  /\ UNCHANGED <<flagVars, videoVars, setVars, gridVars, staleItems, camVars,
                 prevVars,
                 generation, runningThreads, queueVars, tileVars, texMutex,
                 threads>>

\* The locked body of the legacy promotion: texture is copied to
\* oldTexture, tile.pixels is uploaded, the placement is taken from
\* prevCamX, prevCamY and prevZoom, the buffer is deleted.
LegacyPromoteBody ==
  /\ mainPc = "promoteBody"
  /\ LET i == loopIdx
         t == tiles[i]
         kept == IF USE_OLD_TEXTURES
                   THEN [t EXCEPT !.oldTexture = t.texture,
                                  !.olda1 = t.a1, !.oldb1 = t.b1,
                                  !.olda2 = t.a2, !.oldb2 = t.b2]
                   ELSE t
     IN  /\ \E content \in UploadOutcomes(t.pixels) :
               tiles' = [tiles EXCEPT ![i] =
                           [kept EXCEPT
                              !.texture = content,
                              !.a1 = TileOriginX(i, prevCamX, prevZoom),
                              !.b1 = TileOriginY(i, prevCamY, prevZoom),
                              !.a2 = LegacyCornerX(i, prevCamX, prevZoom),
                              !.b2 = LegacyCornerY(i, prevCamY, prevZoom),
                              !.hasComputed = FALSE]]
         /\ allocated' = allocated \ {t.pixels}
  /\ texMutex' = Unlock(texMutex, loopIdx)
  /\ LegacyAfterPromote(loopIdx)
  /\ UNCHANGED <<flagVars, videoVars, setVars, gridVars, staleItems, camVars,
                 prevVars,
                 generation, runningThreads, queueVars, threads,
                 committedGeneration>>

LegacyMainLoop ==
  \/ LegacyFirstRender
  \/ LegacyJoin
  \/ LegacyViewChange
  \/ LegacyEndInput
  \/ LegacyPromoteCheck
  \/ PromoteLock
  \/ LegacyPromoteBody
  \/ DrawLock
  \/ DrawTile

NextLegacy ==
  \/ MoveCamera
  \/ CloseWindow
  \/ LegacyMainLoop
  \/ LegacyWorker

SpecLegacy == InitLegacy /\ [][NextLegacy]_vars

(* ------------------------------ properties ----------------------------- *)
\* The step is the commit step (compare-and-assign, lock release) of w.
CommitStep(w) == w \in threads /\ w.pc = "commit" /\ w \notin threads'

\* The step is a commit step of w and the commit is accepted: the tile
\* takes w's buffer.
AcceptedCommitStep(w) ==
  /\ CommitStep(w)
  /\ tiles'[w.tileIndex].pixels = w.pixels
  /\ tiles'[w.tileIndex].hasComputed

\* C1 -- Stale discard: when a worker reaches its commit step for a tile
\* after a worker of a higher generation has committed to that tile, the
\* commit step leaves the whole tile record (pixels, cx, cy, cz, generation,
\* hasComputed) and the committed generation exactly as they were.
StaleDiscard ==
  [][\A w \in threads :
       (CommitStep(w) /\ w.generation < committedGeneration[w.tileIndex])
         => /\ tiles'[w.tileIndex] = tiles[w.tileIndex]
            /\ committedGeneration' = committedGeneration]_vars

\* A worker holds the lock for its commit while the tile already holds the
\* commit of a higher generation.
StaleCommitReached ==
  \E w \in threads :
    /\ w.pc = "commit"
    /\ w.generation < committedGeneration[w.tileIndex]
    /\ tiles[w.tileIndex].pixels # NULL
    /\ tiles[w.tileIndex].pixels.generation = committedGeneration[w.tileIndex]

\* C2 -- Monotonicity: no step of the scheduler, the dispatch loop, the
\* workers or the promotion loop decreases a tile's committed generation.
CommittedGenerationMonotonic ==
  [][\A i \in TileIndices :
       committedGeneration'[i] >= committedGeneration[i]]_vars

\* A worker of a lower generation is past its commit step on a tile whose
\* committed generation is higher.
StaleWorkerPastCommit ==
  \E w \in threads :
    /\ w.pc = "dec"
    /\ committedGeneration[w.tileIndex] > w.generation

\* C3 -- Eventual consistency: once all NumTasks workers of a tile, started
\* in any order and interleaved in any way, have run to completion, the
\* tile's committed generation is the highest one and its pixels and source
\* view are those of that task.
TasksDone == mainPc = "tasks" /\ pendingTiles = <<>> /\ threads = {}

EventualConsistency ==
  TasksDone =>
    \A i \in tilesScheduled :
      LET last == TaskItem(i, NumTasks - 1)
      IN  /\ committedGeneration[i] = last.generation
          /\ tiles[i].generation = last.generation
          /\ tiles[i].pixels = PixelsOf(NewThread(i, last.cx, last.cy,
                                                  last.cz, last.generation))
          /\ tiles[i].cx = last.cx
          /\ tiles[i].cy = last.cy
          /\ tiles[i].cz = last.cz

\* All tasks are done: every one of them computed a buffer and went
\* through its commit step.
AllTasksCompleted ==
  /\ TasksDone
  /\ runningThreads = 0
  /\ \E i \in tilesScheduled : tiles[i].hasComputed
  /\ Cardinality(allocated) = NumTasks

\* C4 -- Liveness to the latest view: in streaming mode, if the view
\* changes stop after generation g was issued and the window stays open,
\* then under fair scheduling the queue eventually is empty, no worker is
\* running and every tile holds the commit of generation g.
Quiet == pendingTiles = <<>> /\ threads = {} /\ runningThreads = 0

HoldsLatest(g) ==
  \A i \in TileIndices :
    /\ committedGeneration[i] = g
    /\ tiles[i].generation = g
    /\ tiles[i].pixels # NULL
    /\ tiles[i].pixels.generation = g
    /\ tiles[i].cx = prevCamX /\ tiles[i].cy = prevCamY
    /\ tiles[i].cz = prevZoom

LivenessToLatestView ==
  \A g \in 0 .. (MaxGeneration - 1) :
    (<>[](generation = g + 1 /\ mainPc # "closed"))
      => <>(Quiet /\ HoldsLatest(g))

\* The system is quiet and every tile holds the last generation issued.
QuietAtLatestView ==
  /\ generation = MaxGeneration
  /\ Quiet
  /\ HoldsLatest(MaxGeneration - 1)

\* C5 (as stated) -- a commit is accepted iff the worker's generation is at
\* least the generation of the tile's last committed result.
CommitRuleByCommittedGeneration ==
  [][\A w \in threads :
       CommitStep(w) =>
         (AcceptedCommitStep(w)
            <=> w.generation >= committedGeneration[w.tileIndex])]_vars

\* C5 (amended) -- a commit is accepted iff the worker's generation is at
\* least tile.generation, the highest generation recorded for the tile by
\* an intent step or a commit; an accepted commit therefore is at least the
\* committed generation, but not every such commit is accepted.
CommitRule ==
  [][\A w \in threads :
       CommitStep(w) =>
         /\ AcceptedCommitStep(w)
              <=> w.generation >= tiles[w.tileIndex].generation
         /\ AcceptedCommitStep(w)
              => w.generation >= committedGeneration[w.tileIndex]]_vars

\* A worker is at its commit step with a generation that is at least the
\* committed one but below the intent another worker has recorded.
CommitBelowIntent ==
  \E w \in threads :
    /\ w.pc = "commit"
    /\ w.generation >= committedGeneration[w.tileIndex]
    /\ w.generation < tiles[w.tileIndex].generation

\* C6 (as stated) -- Bounded concurrency: neither the number of workers
\* spawned and not yet finished nor runningThreads exceeds MAX_THREADS.
BoundedConcurrency ==
  /\ Cardinality(threads) <= MAX_THREADS
  /\ runningThreads <= MAX_THREADS

\* C7 -- Dedup correctness: with AVOID_DUPLICATES the pending queue holds
\* at most one item per tile index.
DedupCorrect ==
  AVOID_DUPLICATES =>
    \A a, b \in 1 .. Len(pendingTiles) :
      a # b => pendingTiles[a].index # pendingTiles[b].index

\* Two view changes were issued and no worker has run yet: the items of
\* the first were pending when the second rescheduled every tile.
RescheduledWhilePending ==
  /\ AVOID_DUPLICATES
  /\ generation = 2
  /\ Len(pendingTiles) = TileCount
  /\ threads = {} /\ allocated = {}
  /\ \A i \in TileIndices : tiles[i].texture = BlankTexture

\* C8 -- the committed generation of a tile is at most tile.generation,
\* the highest generation recorded as intent.
CommittedAtMostRequested ==
  \A i \in TileIndices : committedGeneration[i] <= tiles[i].generation

\* A tile holds a commit while a higher generation is recorded as intent.
IntentAheadOfCommit ==
  \E i \in TileIndices :
    /\ tiles[i].pixels # NULL
    /\ committedGeneration[i] = tiles[i].pixels.generation
    /\ committedGeneration[i] < tiles[i].generation

\* C9 -- Generation stamping: a view change appends one item per tile, all
\* with the current value of the generation counter, which is greater than
\* the generation of every item and worker of the earlier view changes,
\* and the counter then increases.
GenerationStamping ==
  [][(mainPc \in {"first", "input"} /\ pendingTiles' # pendingTiles) =>
       LET n == Len(pendingTiles')
           fresh == (n - TileCount + 1) .. n
       IN  /\ n >= TileCount
           /\ \A k \in fresh : pendingTiles'[k].generation = generation
           /\ {pendingTiles'[k].index : k \in fresh} = TileIndices
           /\ \A k \in 1 .. Len(pendingTiles) :
                pendingTiles[k].generation < generation
           /\ \A w \in threads : w.generation < generation
           /\ generation' > generation]_vars

\* A later view change is queued while a worker of an earlier one runs.
LaterViewQueuedEarlierRunning ==
  /\ generation >= 2
  /\ Len(pendingTiles) = TileCount
  /\ \A k \in 1 .. Len(pendingTiles) :
       pendingTiles[k].generation = generation - 1
  /\ \E w \in threads : w.generation < generation - 1

\* The three staged layers of a tile.
Layers(t) == {t.texture, t.oldTexture, t.veryOldTexture}

PromoteStep(i) ==
  mainPc = "promoteBody" /\ loopIdx = i /\ mainPc' # "promoteBody"

LayerGeneration(texture) ==
  IF texture = BlankTexture THEN -1 ELSE texture.generation

StampPixelsViewOfOneCommit ==
  \A i \in TileIndices :
    (texMutex[i] = "free" /\ tiles[i].pixels # NULL) =>
      /\ tiles[i].generation = tiles[i].pixels.generation
      /\ <<tiles[i].cx, tiles[i].cy, tiles[i].cz>>
           = <<tiles[i].pixels.cx, tiles[i].pixels.cy, tiles[i].pixels.cz>>

\* C12 (amended) -- whenever a tile's lock is free, its pixels and its
\* source view belong to the same accepted commit, the last one; the
\* generation stamp is the highest generation requested, at least that
\* commit's generation.
PixelsAndViewOfOneCommit ==
  \A i \in TileIndices :
    (texMutex[i] = "free" /\ tiles[i].pixels # NULL) =>
      /\ <<tiles[i].cx, tiles[i].cy, tiles[i].cz>>
           = <<tiles[i].pixels.cx, tiles[i].pixels.cy, tiles[i].pixels.cz>>
      /\ tiles[i].pixels.tileIndex = i
      /\ tiles[i].pixels.generation = committedGeneration[i]
      /\ tiles[i].pixels.generation <= tiles[i].generation

\* A free tile holds the commit of one view while its stamp is the
\* generation of a later, different view.
StampAheadOfPixels ==
  \E i \in TileIndices :
    /\ texMutex[i] = "free"
    /\ tiles[i].pixels # NULL
    /\ tiles[i].hasComputed
    /\ tiles[i].generation > tiles[i].pixels.generation
    /\ \E w \in threads :
         /\ w.tileIndex = i /\ w.generation = tiles[i].generation
         /\ w.cx # tiles[i].cx

\* Chebyshev distance between the tiles of indices a and b on a grid of tx
\* columns.
Abs(n) == IF n < 0 THEN -n ELSE n

Chebyshev(tx, a, b) ==
  LET h == Abs((a % tx) - (b % tx))
      v == Abs((a \div tx) - (b \div tx))
  IN  IF h >= v THEN h ELSE v

\* C13 -- Spiral order: on every grid of at least one column and one row,
\* getSpiralIndicesOutward returns the tile at column TILES_X/2, row
\* TILES_Y/2 first and lists the tiles in non-decreasing Chebyshev distance
\* from it; on a 3 x 3 grid tile 4 comes first and its 8 neighbours follow.
SpiralOrder ==
  spiralIndices # <<>> =>
    LET centre == (gridX \div 2) + (gridY \div 2) * gridX
    IN  /\ spiralIndices[1] = centre
        /\ \A k \in 1 .. (Len(spiralIndices) - 1) :
              Chebyshev(gridX, centre, spiralIndices[k])
                <= Chebyshev(gridX, centre, spiralIndices[k + 1])
        /\ (gridX = 3 /\ gridY = 3) =>
              /\ spiralIndices[1] = 4
              /\ {spiralIndices[k] : k \in 2 .. 9} = (0 .. 8) \ {4}

\* The spiral of the 3 x 3 grid has been computed.
SpiralOfThreeByThree ==
  /\ gridX = 3 /\ gridY = 3
  /\ Len(spiralIndices) = 9
  /\ spiralIndices[1] = 4
  /\ spiralIndices[9] # 4

\* The step is a call of customUpdateTilesParallel.
ViewChangeStep == generation' = generation + 1

\* The positions of the items that the call of the step appended.
NewItems ==
  {k \in 1 .. Len(pendingTiles') : pendingTiles'[k].generation = generation}

\* C14 -- In each of the five ordering cases (spiral and the four
\* directional ones) a detached-mode call of updateTilesParallel returns
\* and has scheduled every tile index of the grid exactly once, each item
\* tagged with the generation of the call.
ScheduledExactlyOnce ==
  [][ViewChangeStep =>
       /\ \A i \in GridIndices :
             Cardinality({k \in NewItems : pendingTiles'[k].index = i}) = 1
       /\ \A k \in NewItems : pendingTiles'[k].index \in GridIndices
       /\ Cardinality(NewItems) = gridX * gridY
       /\ tilesScheduled' = GridIndices]_vars

\* The second call on the 3 x 2 grid, without the removal of duplicates,
\* took the case that starts in the last column and the last row.
SecondCallFromLastTile ==
  /\ gridX = 3 /\ gridY = 2 /\ ~AVOID_DUPLICATES
  /\ generation = 2
  /\ Len(pendingTiles) = 12
  /\ pendingTiles[7].generation = 1
  /\ pendingTiles[7].index = 5
  /\ pendingTiles[8].index = 2

\* The tiles of the column (horizontal component) or row (purely vertical
\* motion) on the edge the view travels toward; diffX and diffY are the
\* previous camera position minus the new one.
LeadingEdge(diffX, diffY) ==
  IF diffX # 0
    THEN {i \in GridIndices :
            i % gridX = IF diffX < 0 THEN gridX - 1 ELSE 0}
    ELSE {i \in GridIndices :
            i \div gridX = IF diffY < 0 THEN gridY - 1 ELSE 0}

\* C15 (as stated) -- Directional order: when the view moved, every tile
\* of the leading column (motion with a horizontal component) or of the
\* leading row (purely vertical motion) is scheduled before any tile
\* outside it.
DirectionalOrder ==
  [][LET diffX == prevCamX - cameraX
         diffY == prevCamY - cameraY
         leading == LeadingEdge(diffX, diffY)
     IN  (ViewChangeStep /\ (diffX # 0 \/ diffY # 0)) =>
           \A a, b \in NewItems :
             (/\ pendingTiles'[a].index \in leading
              /\ pendingTiles'[b].index \notin leading) => a < b]_vars

\* C16 -- Synchronous mode: with DETACHED_MODE disabled, updateTilesParallel
\* creates exactly one worker per tile, each with the view and generation
\* of the call, and returns only when none of them is left; on return
\* every tile holds the committed result of the call's generation.
SynchronousBatch ==
  [][/\ (mainPc # "join" /\ mainPc' = "join") =>
          /\ \A i \in TileIndices :
                Cardinality({w \in threads' : w.tileIndex = i}) = 1
          /\ \A w \in threads' :
                /\ w.generation = generation
                /\ <<w.cx, w.cy, w.cz>> = <<cameraX, cameraY, zoom>>
                /\ w.pc = "start"
     /\ (mainPc = "join" /\ mainPc' # "join") =>
          /\ threads = {} /\ threads' = {}
          /\ runningThreads' = 0
          /\ \A i \in TileIndices :
                /\ texMutex'[i] = "free"
                /\ committedGeneration'[i] = generation
                /\ tiles'[i].generation = generation
                /\ tiles'[i].hasComputed
                /\ tiles'[i].pixels =
                     PixelsOf(NewThread(i, cameraX, cameraY, zoom, generation))
                /\ <<tiles'[i].cx, tiles'[i].cy, tiles'[i].cz>>
                     = <<cameraX, cameraY, zoom>>]_vars

\* The second synchronous call has returned: its generation follows the
\* first render's and its view is another one.
SecondBatchReturned ==
  /\ ~DETACHED_MODE
  /\ mainPc = "input"
  /\ generation = 2
  /\ threads = {}
  /\ prevCamX = 1
  /\ \A i \in TileIndices :
        tiles[i].hasComputed /\ tiles[i].pixels.generation = 1

\* C17 (as stated) -- Worker-creation failure: when the dispatch loop has
\* taken an item that passes the generation filter and no thread is
\* started for it, the program keeps running and the item is still in the
\* pending queue and its tile in the scheduled set.
CreationFailureKeepsItem ==
  [][(/\ mainPc = "pop"
      /\ DispatchFilter(Head(pendingTiles),
                        tiles[Head(pendingTiles).index].generation)
      /\ threads' = threads)
       => /\ mainPc' # "terminated"
          /\ pendingTiles' = pendingTiles
          /\ tilesScheduled' = tilesScheduled]_vars

\* C18 (as stated) -- Allocation failure: when a worker cannot allocate its
\* pixel buffer, only that task fails: the program keeps running, the
\* worker ends and gives back its slot of runningThreads, and the tile's
\* record and committed generation are what they were.
AllocationFailureContained ==
  [][\A w \in threads :
       (w.pc = "compute" /\ [w EXCEPT !.pc = "bad_alloc"] \in threads')
         => /\ mainPc' # "terminated"
            /\ tiles' = tiles
            /\ committedGeneration' = committedGeneration]_vars

LayerRank(layer) ==
  CASE layer = "veryOld" -> 0 [] layer = "old" -> 1 [] OTHER -> 2

\* C19 -- Presentation order: within a frame the draws go from the oldest
\* layer to the newest (veryOld, old, current), the current layer of a
\* tile is drawn after both of the tile's older layers, and a finished
\* frame has drawn the three layers of every tile.
PresentationOrder ==
  /\ \A a, b \in 1 .. Len(frame) :
       a < b => LayerRank(frame[a].layer) <= LayerRank(frame[b].layer)
  /\ \A b \in 1 .. Len(frame) :
       (USE_OLD_TEXTURES /\ frame[b].layer = "current") =>
         \A older \in {"veryOld", "old"} :
           \E a \in 1 .. (b - 1) :
             frame[a] = [layer |-> older, tile |-> frame[b].tile]
  /\ (USE_OLD_TEXTURES /\ mainPc = "input" /\ frame # <<>>) =>
       \A i \in TileIndices :
         \A layer \in {"veryOld", "old", "current"} :
           \E a \in 1 .. Len(frame) :
             frame[a] = [layer |-> layer, tile |-> i]

\* A frame is finished in which some tile showed a current layer over an
\* older one.
FrameWithTwoLayersDrawn ==
  /\ mainPc = "input"
  /\ Len(frame) = 3 * TileCount
  /\ frame[Len(frame)].layer = "current"
  /\ \E i \in TileIndices :
        /\ tiles[i].texture # BlankTexture
        /\ tiles[i].oldTexture # BlankTexture
        /\ tiles[i].texture # tiles[i].oldTexture

\* C20 -- Ties: a commit step whose worker carries the generation the tile
\* holds at that moment is accepted: the tile takes the worker's pixels and
\* source view.
TiesAccepted ==
  [][\A w \in threads :
       (CommitStep(w) /\ w.generation = tiles[w.tileIndex].generation)
         => /\ tiles'[w.tileIndex].pixels = w.pixels
            /\ tiles'[w.tileIndex].hasComputed
            /\ tiles'[w.tileIndex].generation = w.generation
            /\ <<tiles'[w.tileIndex].cx, tiles'[w.tileIndex].cy,
                 tiles'[w.tileIndex].cz>> = <<w.cx, w.cy, w.cz>>
            /\ committedGeneration'[w.tileIndex] = w.generation]_vars

\* A worker is past its commit on a tile that held its generation and the
\* result of an earlier generation, never promoted: the tile now has the
\* worker's pixels and view.
TieOverwroteEarlierResult ==
  \E w \in threads :
    /\ w.pc = "dec"
    /\ w.generation > 0
    /\ tiles[w.tileIndex].generation = w.generation
    /\ tiles[w.tileIndex].pixels = w.pixels
    /\ tiles[w.tileIndex].cx = w.cx
    /\ tiles[w.tileIndex].texture = BlankTexture
    /\ \E p \in allocated :
          /\ p.tileIndex = w.tileIndex
          /\ p.generation < w.generation
          /\ \A v \in threads : v.pixels # p

\* The items of queue q whose tile is not i, in their order.
RECURSIVE ItemsOfOthers(_, _)
ItemsOfOthers(q, i) ==
  IF q = <<>> THEN <<>>
  ELSE IF Head(q).index = i THEN ItemsOfOthers(Tail(q), i)
  ELSE <<Head(q)>> \o ItemsOfOthers(Tail(q), i)

PendingFor(q, i) == {k \in 1 .. Len(q) : q[k].index = i}

\* C21 -- Dedup policy: with AVOID_DUPLICATES a call of scheduleTile for a
\* tile that has a pending item takes that item out of the queue and puts
\* the new item at the tail; the other items keep their order and
\* contents.  For a tile without a pending item the call only appends.
DedupPolicy ==
  [][pendingTiles' # pendingTiles =>
       LET new == pendingTiles'[Len(pendingTiles')]
           i == new.index
       IN  /\ new = [index |-> i, cx |-> cameraX', cy |-> cameraY',
                     cz |-> zoom', generation |-> generation']
           /\ tilesScheduled' = tilesScheduled \cup {i}
           /\ PendingFor(pendingTiles, i) = {} =>
                pendingTiles' = Append(pendingTiles, new)
           /\ (AVOID_DUPLICATES /\ PendingFor(pendingTiles, i) # {}) =>
                /\ PendingFor(pendingTiles', i) = {Len(pendingTiles')}
                /\ Len(pendingTiles') = Len(pendingTiles)
                /\ ItemsOfOthers(pendingTiles', i)
                     = ItemsOfOthers(pendingTiles, i)]_vars

\* Tile 1 was rescheduled for a later generation while three items were
\* pending: its item left the middle of the queue and the new one is at
\* the tail, behind the items of tiles 0 and 2.
RescheduledFromTheMiddle ==
  /\ mainPc = "schedule"
  /\ AVOID_DUPLICATES
  /\ Len(pendingTiles) = 3
  /\ pendingTiles[1].index = 0 /\ pendingTiles[1].generation = 0
  /\ pendingTiles[2].index = 2 /\ pendingTiles[2].generation = 0
  /\ pendingTiles[3].index = 1 /\ pendingTiles[3].generation = 1
  /\ pendingTiles[1].cx # pendingTiles[3].cx

\* The workers the step starts.
StartedWorkers == {w \in threads' : w.pc = "start"} \ threads

\* C22 -- Dequeue: every step that takes an item out of the pending queue
\* or starts a detached worker is a step of the dispatch loop's body; it
\* removes the item at the head of the queue, removes that item's tile from
\* the scheduled set, and a worker it starts is the one of that item.
DequeueFifo ==
  [][LET head == Head(pendingTiles)
     IN  /\ (mainPc = "pop" /\ mainPc' # "pop") =>
              /\ pendingTiles' = Tail(pendingTiles)
              /\ tilesScheduled' = tilesScheduled \ {head.index}
              /\ StartedWorkers \subseteq
                   {NewThread(head.index, head.cx, head.cy, head.cz,
                              head.generation)}
         /\ (StartedWorkers # {} \/ Len(pendingTiles') < Len(pendingTiles))
              => mainPc = "pop"]_vars

\* The dispatch loop has started the worker of the first item of the
\* spiral order and the item that followed it is now at the head.
HeadHandedToWorker ==
  /\ mainPc = "dispatch"
  /\ Len(pendingTiles) = TileCount - 1
  /\ pendingTiles[1].index = spiralIndicesOutward[2]
  /\ \E w \in threads :
        /\ w.pc = "start"
        /\ w.tileIndex = spiralIndicesOutward[1]
        /\ w.generation = pendingTiles[1].generation
        /\ w.tileIndex \notin tilesScheduled

\* C23 -- Dispatch gate: the control loop enters the body of the dispatch
\* loop, where it dequeues, only from an evaluation of the loop condition
\* that read runningThreads < MAX_THREADS and found the queue non-empty;
\* an evaluation that reads runningThreads >= MAX_THREADS ends the loop
\* with the queue and the scheduled set as they were; and items leave the
\* queue only in the body.
DispatchGated ==
  [][/\ (mainPc # "pop" /\ mainPc' = "pop") =>
          /\ mainPc = "dispatch"
          /\ runningThreads < MAX_THREADS
          /\ pendingTiles # <<>>
     /\ (mainPc = "dispatch" /\ mainPc' # "dispatch"
           /\ runningThreads >= MAX_THREADS) =>
          /\ mainPc' = "promote"
          /\ UNCHANGED <<pendingTiles, tilesScheduled, threads>>
     /\ Len(pendingTiles') < Len(pendingTiles) => mainPc = "pop"]_vars

\* The loop condition was just evaluated with MAX_THREADS workers counted
\* and items still pending: the loop ended and the items stayed.
GateClosedWithItemsPending ==
  /\ mainPc = "promote" /\ loopIdx = 0
  /\ runningThreads >= MAX_THREADS
  /\ pendingTiles # <<>>
  /\ tilesScheduled # {}
  /\ \E w \in threads : w.pc = "intentLock"

\* The step is the intent step (compare-and-assign, lock release) of w.
IntentStep(w) == w \in threads /\ w.pc = "intent" /\ w \notin threads'

Max(a, b) == IF a >= b THEN a ELSE b

\* C24 -- Intent recording: the intent step of a worker of generation G
\* runs with the tile's lock held by the worker and before the worker has
\* a pixel buffer; it sets tile.generation to max(tile.generation, G) and
\* changes nothing else of the tile or of any other tile; and no step at
\* all lowers a tile's generation.
IntentRecording ==
  [][/\ \A w \in threads :
          IntentStep(w) =>
            /\ texMutex[w.tileIndex] = "worker"
            /\ w.pixels = NULL
            /\ tiles' = [tiles EXCEPT ![w.tileIndex].generation =
                                        Max(@, w.generation)]
            /\ committedGeneration' = committedGeneration
            /\ allocated' = allocated
     /\ \A i \in TileIndices :
          tiles'[i].generation >= tiles[i].generation]_vars

\* A worker is computing for a generation below the one its tile already
\* holds: its intent step kept the higher value.
IntentKeptHigherGeneration ==
  \E w \in threads :
    /\ w.pc = "compute"
    /\ w.generation < tiles[w.tileIndex].generation
    /\ texMutex[w.tileIndex] = "free"

\* The workers that are inside one of their two locked blocks on tile i.
LockedWorkers(i) ==
  {w \in threads : w.tileIndex = i /\ w.pc \in {"intent", "commit"}}

\* C25 -- Lock scope: a tile's lock is held by a worker exactly while one
\* worker of that tile is in its intent update or in its commit
\* compare-and-assign; a worker that is starting, waiting, computing or
\* leaving holds no lock.
LockScope ==
  \A i \in TileIndices :
    /\ Cardinality(LockedWorkers(i)) <= 1
    /\ texMutex[i] = "worker" <=> LockedWorkers(i) # {}

\* A worker is in its compute phase while the controlling thread holds the
\* lock of the worker's tile.
ComputingWhileMainHoldsLock ==
  \E w \in threads :
    /\ w.pc = "compute"
    /\ texMutex[w.tileIndex] = "main"
    /\ mainPc \in {"promoteBody", "drawTile"}

\* The tiles whose lock the controlling thread holds.
MainLocks == {i \in TileIndices : texMutex[i] = "main"}

\* Worker w waits for the lock of its tile.
WorkerWaits(w) ==
  w.pc \in {"intentLock", "commitLock"} /\ texMutex[w.tileIndex] # "free"

\* The controlling thread waits for the lock of tile loopIdx.
MainWaits ==
  mainPc \in {"promoteLock", "draw"} /\ texMutex[loopIdx] # "free"

\* The holder of tile i's lock can take its next step, which releases the
\* lock.
HolderCanStep(i) ==
  \/ texMutex[i] = "main" /\ ENABLED (PromoteBody \/ DrawTile)
  \/ /\ texMutex[i] = "worker"
     /\ \E v \in LockedWorkers(i) :
          ENABLED (WorkerIntent(v) \/ WorkerCommit(v))

\* C26 -- No nested locking: the controlling thread holds at most one
\* tile lock, and none while it is about to take one; a worker holds at
\* most the lock of its own tile (LockedWorkers); so whenever a thread
\* waits for a lock while the process runs, the holder of that lock is not
\* waiting and can take the step that releases it: no state is a deadlock.
NoNestedLocking ==
  /\ Cardinality(MainLocks) <= 1
  /\ MainLocks # {} =>
       mainPc \in {"promoteBody", "drawTile"} /\ MainLocks = {loopIdx}
  /\ \A i \in TileIndices :
       texMutex[i] = "worker" => Cardinality(LockedWorkers(i)) = 1
  /\ \A w \in threads :
       Cardinality({i \in TileIndices : w \in LockedWorkers(i)}) <= 1
  /\ ProcessAlive =>
       /\ \A w \in threads : WorkerWaits(w) => HolderCanStep(w.tileIndex)
       /\ MainWaits => HolderCanStep(loopIdx)

\* Three threads at once: the controlling thread holds the lock of one
\* tile, a worker waits for that lock, and another worker holds the lock
\* of another tile.
WaitingWhileTwoLocksHeld ==
  \E w \in threads :
    /\ WorkerWaits(w)
    /\ texMutex[w.tileIndex] = "main"
    /\ \E v \in threads :
          /\ v.tileIndex # w.tileIndex
          /\ v \in LockedWorkers(v.tileIndex)

\* The work item worker w was started from.
ItemOf(w) ==
  [index |-> w.tileIndex, cx |-> w.cx, cy |-> w.cy, cz |-> w.cz,
   generation |-> w.generation]

\* With AVOID_DUPLICATES off a view change appends one item per tile and
\* leaves every pending item where it was.
DuplicatesStayQueued ==
  (ViewChangeStep /\ ~AVOID_DUPLICATES) =>
    /\ Len(pendingTiles') = Len(pendingTiles) + TileCount
    /\ SubSeq(pendingTiles', 1, Len(pendingTiles)) = pendingTiles

\* C27 (as stated) -- Dedup disabled: both items stay in the queue, and the
\* commit step of the worker started from the older one is rejected.
StaleItemDiscardedAtCommit ==
  [][/\ DuplicatesStayQueued
     /\ \A w \in threads :
          (CommitStep(w) /\ ItemOf(w) \in staleItems) =>
            /\ tiles'[w.tileIndex] = tiles[w.tileIndex]
            /\ committedGeneration' = committedGeneration]_vars

\* C27 (amended) -- Dedup disabled: both items stay in the queue; the
\* commit step of the worker started from the older one is rejected when
\* the tile already holds a higher generation (a newer worker has recorded
\* its intent or committed), and is accepted otherwise, in which case the
\* result replaces one that is not newer.
StaleItemDiscardedAfterNewerIntent ==
  [][/\ DuplicatesStayQueued
     /\ \A w \in threads :
          (CommitStep(w) /\ ItemOf(w) \in staleItems) =>
            IF tiles[w.tileIndex].generation > w.generation
              THEN /\ tiles'[w.tileIndex] = tiles[w.tileIndex]
                   /\ committedGeneration' = committedGeneration
              ELSE /\ AcceptedCommitStep(w)
                   /\ committedGeneration[w.tileIndex] <= w.generation
                   /\ committedGeneration'[w.tileIndex] = w.generation]_vars

\* The worker of an older item has committed its result while the newer
\* item of the same tile is still in the queue.
StaleResultCommitted ==
  \E w \in threads :
    /\ w.pc = "dec"
    /\ ItemOf(w) \in staleItems
    /\ tiles[w.tileIndex].pixels = w.pixels
    /\ tiles[w.tileIndex].hasComputed
    /\ \E k \in 1 .. Len(pendingTiles) :
          /\ pendingTiles[k].index = w.tileIndex
          /\ pendingTiles[k].generation > w.generation

\* The layers and their placement data.
Staged(t) ==
  <<t.texture, t.x, t.y, t.z, t.oldTexture, t.oldX, t.oldY, t.oldZ,
    t.veryOldTexture, t.veryOldX, t.veryOldY, t.veryOldZ>>

\* C28 -- Dirty flag: an accepted commit sets hasComputed and a rejected
\* commit leaves the tile as it is; the promotion loop skips a tile whose
\* flag it reads as not set; the promotion of a tile happens with the flag
\* set, clears it, keeps the tile's generation and changes no other tile;
\* and no other step changes the layers or placement data of a tile.
DirtyFlag ==
  [][/\ \A w \in threads :
          CommitStep(w) =>
            IF CommitAccepts(tiles[w.tileIndex].generation, w.generation)
              THEN tiles'[w.tileIndex].hasComputed
              ELSE tiles'[w.tileIndex] = tiles[w.tileIndex]
     /\ (/\ mainPc = "promote"
         /\ <<mainPc', loopIdx'>> # <<mainPc, loopIdx>>
         /\ ~tiles[loopIdx].hasComputed) =>
          /\ mainPc' # "promoteLock"
          /\ tiles' = tiles
     /\ \A i \in TileIndices :
          /\ PromoteStep(i) =>
               /\ tiles[i].hasComputed
               /\ ~tiles'[i].hasComputed
               /\ tiles'[i].generation = tiles[i].generation
               /\ \A j \in TileIndices \ {i} : tiles'[j] = tiles[j]
          /\ Staged(tiles'[i]) # Staged(tiles[i]) => PromoteStep(i)]_vars

\* A promotion pass is over: it promoted tile 0, whose flag is cleared,
\* and skipped tile 1, which never had a result.
PromotedOneSkippedOther ==
  /\ mainPc = "draw" /\ loopIdx = 0 /\ frame = <<>>
  /\ tiles[0].texture # BlankTexture
  /\ ~tiles[0].hasComputed
  /\ tiles[1].pixels = NULL
  /\ Staged(tiles[1]) = Staged(InitialTile)

\* A layer of tile i shows pixels under the placement of the view they
\* were computed for; a blank layer has the placement it was created with.
LayerPaired(i, texture, x, y, z) ==
  IF texture = BlankTexture THEN <<x, y, z>> = <<0, 0, 0>>
  ELSE /\ texture.tileIndex = i
       /\ x = TileOriginX(i, texture.cx, texture.cz)
       /\ y = TileOriginY(i, texture.cy, texture.cz)
       /\ z = texture.cz

LayersPaired(i, t) ==
  /\ LayerPaired(i, t.texture, t.x, t.y, t.z)
  /\ LayerPaired(i, t.oldTexture, t.oldX, t.oldY, t.oldZ)
  /\ LayerPaired(i, t.veryOldTexture, t.veryOldX, t.veryOldY, t.veryOldZ)

DropStep == mainPc = "pop" /\ mainPc' # "pop" /\ StartedWorkers = {}

\* C30 -- Dispatch-time filter is safe: when the dispatch loop takes an
\* item and starts no worker for it, the tile's generation is greater than
\* the item's, so the commit rule rejects the item's generation, now and
\* later since no step lowers a tile's generation; an item of the newest
\* issued generation is never dropped.
DispatchFilterSafe ==
  [][/\ DropStep =>
          LET head == Head(pendingTiles)
          IN  /\ tiles[head.index].generation > head.generation
              /\ ~CommitAccepts(tiles[head.index].generation, head.generation)
              /\ head.generation # generation - 1
     /\ \A i \in TileIndices :
          tiles'[i].generation >= tiles[i].generation]_vars

\* Items of one tile leave the queue in the order of their generations, so
\* the filter finds no tile ahead of the item it looks at: every item the
\* dispatch loop takes gets its worker.
NoItemDropped == [][~DropStep]_vars

\* The worker of an item of the newest issued generation has been started
\* while its tile still carried an older generation and an earlier item of
\* the tile had been pending when this one was queued.
NewestItemStarted ==
  \E w \in threads :
    /\ w.pc = "start"
    /\ w.generation = generation - 1
    /\ tiles[w.tileIndex].generation < w.generation
    /\ \E s \in staleItems : s.index = w.tileIndex

\* The pixels of tile i under the view of the last issued generation.
LatestPixels(i) ==
  PixelsOf(NewThread(i, prevCamX, prevCamY, prevZoom, generation - 1))

\* The last accepted commit of tile i is either waiting for its promotion,
\* in an allocated buffer, or shown by the current layer.
CommitKept(i) ==
  LET t == tiles[i]
      last == [tileIndex |-> i, cx |-> t.cx, cy |-> t.cy, cz |-> t.cz,
               generation |-> committedGeneration[i]]
  IN  IF t.hasComputed
        THEN t.pixels = last /\ t.pixels \in allocated
        ELSE \/ t.texture = last
             \/ t.texture = BlankTexture /\ t.pixels = NULL

\* The controlling thread's step ends the promotion loop's work on tile i.
PromotionDoneStep(i) ==
  /\ loopIdx = i
  /\ \/ mainPc = "promote" /\ ~tiles[i].hasComputed
     \/ mainPc = "promoteBody"
  /\ <<mainPc', loopIdx'>> # <<mainPc, loopIdx>>

\* C31 -- End-to-end display freshness: when the queue is empty and no
\* worker is running, the promotion loop leaves each tile it is done with
\* unflagged and with a current layer that holds the pixels, and the
\* placement of the view, of the last issued generation; in a quiet state
\* every tile holds that commit either in its current layer or flagged for
\* promotion; and in every state the last accepted commit of a tile is in
\* its current layer or flagged for promotion, never dropped by a
\* promotion that checked the flag before the commit.
DisplayFreshness ==
  [][\A i \in TileIndices :
       /\ CommitKept(i)
       /\ (Quiet /\ mainPc # "first") =>
            IF tiles[i].hasComputed THEN tiles[i].pixels = LatestPixels(i)
                                    ELSE tiles[i].texture = LatestPixels(i)
       /\ (Quiet /\ PromotionDoneStep(i)) =>
            /\ ~tiles'[i].hasComputed
            /\ tiles'[i].texture = LatestPixels(i)
            /\ tiles'[i].x = TileOriginX(i, prevCamX, prevZoom)
            /\ tiles'[i].y = TileOriginY(i, prevCamY, prevZoom)
            /\ tiles'[i].z = prevZoom]_vars

\* After two view changes a promotion pass that began in a quiet state has
\* ended: every current layer shows the second view, every old layer the
\* first.
FreshAfterQuietPass ==
  /\ Quiet
  /\ mainPc = "draw"
  /\ generation = 2
  /\ prevCamX # 0
  /\ \A i \in TileIndices :
       /\ ~tiles[i].hasComputed
       /\ tiles[i].texture = LatestPixels(i)
       /\ tiles[i].oldTexture # BlankTexture
       /\ tiles[i].oldTexture.generation = 0

\* The queue that holds one item per tile of the grid, in the order the
\* call of the step chooses, each item with the view and generation of the
\* call.
QueueOfCall ==
  LET order == ScheduleOrderOn(gridX, gridY, spiralIndices,
                               prevCamX - cameraX, prevCamY - cameraY)
  IN  [k \in 1 .. (gridX * gridY) |->
         [index |-> order[k], cx |-> cameraX, cy |-> cameraY, cz |-> zoom,
          generation |-> generation]]

\* C32 -- With AVOID_DUPLICATES on, right after a detached-mode call of
\* updateTilesParallel the pending queue is the sequence of one item per
\* tile, in the order of the call's ordering policy, every item carrying
\* the call's generation, whatever was pending before the call; the queue
\* never holds more than gridX * gridY items.
OneItemPerTileAfterCall ==
  [][(AVOID_DUPLICATES /\ DETACHED_MODE) =>
       /\ Len(pendingTiles) <= gridX * gridY
       /\ Len(pendingTiles') <= gridX * gridY
       /\ ViewChangeStep => pendingTiles' = QueueOfCall]_vars

\* The second call has returned on a grid of several rows and columns,
\* while the items of the first call (the spiral order) had not been
\* dispatched: the queue holds the second call's items only, in a
\* directional order.
CallReplacedPendingItems ==
  /\ AVOID_DUPLICATES
  /\ mainPc = "input"
  /\ gridX > 1 /\ gridY > 1
  /\ generation = 2
  /\ runningThreads = 0 /\ threads = {}
  /\ Len(pendingTiles) = gridX * gridY
  /\ \A k \in 1 .. Len(pendingTiles) : pendingTiles[k].generation = 1
  /\ pendingTiles[1].index # spiralIndices[1]
  /\ pendingTiles[1].cx # 0

\* C33 -- Buffer safety: tile.pixels changes only by an accepted commit,
\* which installs the committing worker's allocated buffer; a buffer is
\* freed only by the promotion of its tile; and the promotion of a tile
\* reads and frees the buffer tile.pixels points to while that buffer is
\* allocated, so it uploads the buffer's contents and frees it once.
BufferSafety ==
  [][\A i \in TileIndices :
       /\ tiles'[i].pixels # tiles[i].pixels =>
            \E w \in threads :
              /\ w.tileIndex = i
              /\ AcceptedCommitStep(w)
              /\ w.pixels \in allocated
              /\ w.pixels # tiles[i].texture
       /\ PromoteStep(i) =>
            /\ tiles[i].pixels \in allocated
            /\ tiles'[i].texture = tiles[i].pixels
            /\ allocated' = allocated \ {tiles[i].pixels}
            /\ tiles[i].pixels \notin Layers(tiles[i])
       /\ (\E p \in allocated \ allocated' : p.tileIndex = i) =>
            PromoteStep(i)]_vars

\* Two buffers of one tile have been uploaded and freed, one promotion
\* after the other; tile.pixels still points to the second one and the
\* flag that guards it is down.
TwoBuffersFreedInTurn ==
  \E i \in TileIndices :
    /\ tiles[i].texture # BlankTexture
    /\ tiles[i].oldTexture # BlankTexture
    /\ tiles[i].texture \notin allocated
    /\ tiles[i].oldTexture \notin allocated
    /\ tiles[i].pixels = tiles[i].texture
    /\ ~tiles[i].hasComputed

\* C34 (as stated) -- No buffer leak: the buffer of a rejected commit is
\* released by its worker, the buffer of an accepted commit stays allocated
\* until the promotion releases it, and once the queue is empty, no worker
\* is running and no tile is flagged for promotion, no buffer is allocated.
NoBufferLeak ==
  [][/\ \A w \in threads :
          CommitStep(w) =>
            IF AcceptedCommitStep(w) THEN w.pixels \in allocated'
                                     ELSE w.pixels \notin allocated'
     /\ (Quiet /\ \A i \in TileIndices : ~tiles[i].hasComputed) =>
          allocated = {}]_vars

\* C35 (as stated) -- Configuration consistency: every accepted commit
\* installs pixels that were all computed for the committing worker's tile,
\* with the set that was selected when the worker's generation was issued
\* and with the view (centre and scale) of that generation.
ConfigurationConsistency ==
  [][\A w \in threads :
       AcceptedCommitStep(w) =>
         /\ w.sets = {issuedSets[w.generation + 1]}
         /\ w.pixels = PixelsOf(w)]_vars

\* C36 (as stated) -- Legacy viewer generation: the workers a view change
\* of the legacy main loop starts all carry the value the main loop's
\* generation counter has after its increment, which is greater than the
\* generation of every worker started before.
LegacyGenerationFresh ==
  [][(mainPc = "input" /\ threads' # threads) =>
       /\ generation' = generation + 1
       /\ \A w \in threads' : w.generation = generation']_vars

\* The workers that have executed their increment and not their decrement.
CountedWorkers == {w \in threads : w.pc # "start"}

\* Worker w has taken the step and is still alive after it, or has ended
\* with it.
WorkerStepped(w) == w \in threads /\ w \notin threads'
WorkerEnded(w) ==
  /\ w \in threads
  /\ \A v \in threads' :
       v.tileIndex # w.tileIndex \/ v.generation # w.generation

\* C37 -- Running counter: runningThreads is never negative and is the
\* number of workers that have incremented it and not yet decremented it,
\* so it is 0 when no worker is alive; the counter changes only by the
\* first step of a worker, which adds one, and by its last step, which
\* takes one away and ends the worker; the last step is the one that
\* follows the commit attempt, accepted or rejected.
RunningCounter ==
  [][/\ runningThreads >= 0
     /\ runningThreads = Cardinality(CountedWorkers)
     /\ threads = {} => runningThreads = 0
     /\ \A w \in threads :
          /\ (w.pc = "start" /\ WorkerStepped(w)) =>
               /\ runningThreads' = runningThreads + 1
               /\ ~WorkerEnded(w)
          /\ WorkerEnded(w) =>
               /\ w.pc = "dec"
               /\ runningThreads' = runningThreads - 1
          /\ CommitStep(w) => [w EXCEPT !.pc = "dec"] \in threads'
     /\ \A v \in threads' \ threads :
          v.pc = "dec" => CommitStep([v EXCEPT !.pc = "commit"])
     /\ runningThreads' # runningThreads =>
          \E w \in threads :
            WorkerStepped(w) /\ w.pc \in {"start", "dec"}]_vars

\* One worker has not yet added itself to the counter while another one
\* is about to take itself off after a rejected commit.
CountedAndUncounted ==
  /\ runningThreads = 1
  /\ \E v, w \in threads :
       /\ v.pc = "start"
       /\ w.pc = "dec"
       /\ tiles[w.tileIndex].generation > w.generation

\* The tile indices that have an item in queue q.
QueuedIndices(q) == {q[k].index : k \in 1 .. Len(q)}

\* C38 -- With AVOID_DUPLICATES on, whenever the controlling thread is
\* between two of its steps tilesScheduled is exactly the set of the tile
\* indices that have an item in pendingTiles.
ScheduledSetIsQueuedSet ==
  AVOID_DUPLICATES => tilesScheduled = QueuedIndices(pendingTiles)

\* The dispatch loop has taken part of the items of a call that had
\* replaced pending items: one tile is still queued and scheduled, the
\* other is neither.
PartOfQueueDispatched ==
  /\ AVOID_DUPLICATES
  /\ generation = 2
  /\ Len(pendingTiles) = 1
  /\ Cardinality(tilesScheduled) = 1
  /\ \E w \in threads : w.generation = 1 /\ w.tileIndex \notin tilesScheduled

(***************************************************************************)
(* The video generator: src/src/videogen.cpp and, with the frame saved by  *)
(* main instead of by the worker, the older src/videogen.cpp.  It uses     *)
(* pendingTiles, threads, runningThreads, generation (the loop variable of *)
(* the scheduling loop), zoom, mainPc and loopIdx of the viewer, and the   *)
(* four variables of videoVars.                                            *)
(***************************************************************************)

\* const int frameCount = FPS * DURATION (FRAMES in src/videogen.cpp).
frameCount == 2
\* const int tileCount = TILES_X * TILES_Y
tileCount == TILES_X * TILES_Y
\* The factor of zoom *= zoomStep.
zoomStep == 2

FrameIndices == 0 .. (frameCount - 1)

\* tile.pixels.resize(TILE_WIDTH * TILE_HEIGHT): value-initialised colours.
ZeroPixels == [zero |-> TRUE]

\* The pixels computeTileThread computes for tile i at zoom z.
VideoPixels(i, z) == [tileIndex |-> i, z |-> z]

\* Frame after the initialisation loop of main.
InitialFrame(g) ==
  [generation |-> g,
   tiles |-> [i \in TileIndices |->
                [pixels |-> ZeroPixels, hasComputed |-> FALSE, generation |-> g]],
   tilesComputed |-> 0,
   frameMutex |-> "free"]

\* The state when main reaches its scheduling loop.
InitVideoWith(inWorker) ==
  /\ DETACHED_MODE = TRUE
  /\ AVOID_DUPLICATES = FALSE
  /\ USE_OLD_TEXTURES = FALSE
  /\ SET = 0
  /\ issuedSets = <<>>
  /\ cameraX = 0 /\ cameraY = 0 /\ zoom = 1
  /\ prevCamX = 0 /\ prevCamY = 0 /\ prevZoom = 1
  /\ generation = 0
  /\ runningThreads = 0
  /\ pendingTiles = <<>>
  /\ tilesScheduled = {}
  /\ tiles = [i \in TileIndices |-> InitialTile]
  /\ texMutex = [i \in TileIndices |-> "free"]
  /\ threads = {}
  /\ allocated = {}
  /\ committedGeneration = [i \in TileIndices |-> 0]
  /\ staleItems = {}
  /\ gridX = TILES_X /\ gridY = TILES_Y
  /\ spiralIndices = spiralIndicesOutward
  /\ mainPc = "schedule"
  /\ loopIdx = 0
  /\ drawPass = 0
  /\ frame = <<>>
  /\ saveInWorker = inWorker
  /\ frames = [g \in FrameIndices |-> InitialFrame(g)]
  /\ frameFiles = <<>>
  /\ legacyFrameCount = 0

\* Either program.
InitVideo == \E inWorker \in BOOLEAN : InitVideoWith(inWorker)

\* What the video generator never touches.
viewerVars ==
  <<flagVars, setVars, gridVars, staleItems, cameraX, cameraY, prevVars,
    tilesScheduled, tileVars, texMutex, drawPass, frame, saveInWorker>>

\* The items scheduleFrame pushes for frame g: one per tile, in index order.
FrameItems(g, z) ==
  [k \in 1 .. tileCount |->
     [index |-> k - 1, cx |-> cameraX, cy |-> cameraY, z |-> z,
      generation |-> g]]

\* for (i < frameCount) { scheduleFrame(CAMERA_X, CAMERA_Y, zoom, i, ...);
\* zoom *= zoomStep; } with DETACHED_MODE true.
scheduleFrame ==
  /\ mainPc = "schedule"
  /\ IF generation < frameCount
       THEN /\ pendingTiles' = pendingTiles \o FrameItems(generation, zoom)
            /\ zoom' = zoom * zoomStep
            /\ generation' = generation + 1
            /\ UNCHANGED mainPc
       ELSE /\ mainPc' = "outer"
            /\ UNCHANGED <<pendingTiles, zoom, generation>>
  /\ UNCHANGED <<viewerVars, runningThreads, threads, loopIdx, frames,
                 frameFiles, legacyFrameCount>>

\* What saveFrameAsPNG writes: the frame's number and every tile's pixels.
FrameFile(f) ==
  [generation |-> f.generation,
   data |-> [i \in TileIndices |-> f.tiles[i].pixels]]

\* Mutant of the save test: the frame is saved at every count.
FrameCompleteAlways(n) == TRUE

\* if (frames[generation].tilesComputed == tileCount)
FrameComplete(n) == n = tileCount

\* Mutant of the main loop's test: the frames saved so far are not counted.
VideoLoopGoesOnNoCount(inWorker, queue, running, saved) ==
  queue # <<>> \/ running > 0

\* while (!pendingTiles.empty() || runningThreads.load() > 0), and
\* || frameCount < FRAMES in src/videogen.cpp.
VideoLoopGoesOn(inWorker, queue, running, saved) ==
  \/ queue # <<>>
  \/ running > 0
  \/ ~inWorker /\ saved < frameCount

\* The test of the main loop; leaving it, main prints "Done" and returns.
VideoOuterTest ==
  /\ mainPc = "outer"
  /\ IF VideoLoopGoesOn(saveInWorker, pendingTiles, runningThreads,
                        legacyFrameCount)
       THEN mainPc' = IF saveInWorker THEN "inner" ELSE "scan"
       ELSE mainPc' = "done"
  /\ loopIdx' = 0
  /\ UNCHANGED <<viewerVars, zoom, generation, runningThreads, pendingTiles,
                 threads, frames, frameFiles, legacyFrameCount>>

\* src/videogen.cpp: for (i < FRAMES) if (frame.tilesComputed == tileCount)
\* { saveFrameAsPNG(frame); frame.tilesComputed = 0; frameCount++; }
\* The counter is read without the frame's mutex: main sees the value of
\* some increment that has been made, the latest one or an earlier one.
LegacyVideoSaveCheck ==
  /\ mainPc = "scan"
  /\ IF loopIdx < frameCount
       THEN /\ \E seen \in 0 .. frames[loopIdx].tilesComputed :
                 IF FrameComplete(seen)
                   THEN /\ frameFiles' =
                             Append(frameFiles, FrameFile(frames[loopIdx]))
                        /\ frames' =
                             [frames EXCEPT ![loopIdx].tilesComputed = 0]
                        /\ legacyFrameCount' = legacyFrameCount + 1
                   ELSE UNCHANGED <<frames, frameFiles, legacyFrameCount>>
            /\ loopIdx' = loopIdx + 1
            /\ UNCHANGED mainPc
       ELSE /\ mainPc' = "inner"
            /\ UNCHANGED <<loopIdx, frames, frameFiles, legacyFrameCount>>
  /\ UNCHANGED <<viewerVars, zoom, generation, runningThreads, pendingTiles,
                 threads>>

\* The body of the inner loop: the front item is popped and its detached
\* computeTileThread is started.
VideoDispatch ==
  /\ mainPc = "inner"
  /\ DispatchGate(runningThreads, pendingTiles)
  /\ LET next == Head(pendingTiles) IN
       threads' = threads \cup
         {NewThread(next.index, next.cx, next.cy, next.z, next.generation)}
  /\ pendingTiles' = Tail(pendingTiles)
  /\ UNCHANGED <<viewerVars, zoom, generation, runningThreads, mainPc, loopIdx,
                 frames, frameFiles, legacyFrameCount>>

\* The inner loop ends: MAX_THREADS workers are counted or the queue is empty.
VideoInnerExit ==
  /\ mainPc = "inner"
  /\ ~DispatchGate(runningThreads, pendingTiles)
  /\ mainPc' = "outer"
  /\ UNCHANGED <<viewerVars, zoom, generation, runningThreads, pendingTiles,
                 threads, loopIdx, frames, frameFiles, legacyFrameCount>>

\* The detached workers run until main returns.
VideoAlive == mainPc # "done"

\* runningThreads.fetch_add(1)
VideoWorkerStart(w) ==
  /\ VideoAlive
  /\ w.pc = "start"
  /\ runningThreads' = runningThreads + 1
  /\ threads' = Advance(w, "compute")
  /\ UNCHANGED <<viewerVars, zoom, generation, pendingTiles, mainPc, loopIdx,
                 frames, frameFiles, legacyFrameCount>>

\* Mutant of the store: the tile is flagged, its pixels are left as they were.
StoreNothing(t, pixels) == [t EXCEPT !.hasComputed = TRUE]

\* tile.pixels = pixels; tile.hasComputed = true;
StorePixels(t, pixels) == [t EXCEPT !.pixels = pixels, !.hasComputed = TRUE]

\* The pixel loop and the store into the tile, outside any lock.
VideoWorkerStore(w) ==
  /\ VideoAlive
  /\ w.pc = "compute"
  /\ frames' = [frames EXCEPT ![w.generation].tiles[w.tileIndex] =
                  StorePixels(@, VideoPixels(w.tileIndex, w.cz))]
  /\ threads' = Advance(w, "lock")
  /\ UNCHANGED <<viewerVars, zoom, generation, runningThreads, pendingTiles,
                 mainPc, loopIdx, frameFiles, legacyFrameCount>>

\* std::lock_guard<std::mutex> lock(frames[generation].frameMutex)
VideoWorkerLock(w) ==
  /\ VideoAlive
  /\ w.pc = "lock"
  /\ frames[w.generation].frameMutex = "free"
  /\ frames' = [frames EXCEPT ![w.generation].frameMutex = "worker"]
  /\ threads' = Advance(w, "count")
  /\ UNCHANGED <<viewerVars, zoom, generation, runningThreads, pendingTiles,
                 mainPc, loopIdx, frameFiles, legacyFrameCount>>

\* src/src/videogen.cpp: frames[generation].tilesComputed++; the worker that
\* makes it tileCount saves the frame and resets the counter; the lock_guard
\* ends.
VideoWorkerCount(w) ==
  /\ VideoAlive
  /\ saveInWorker
  /\ w.pc = "count"
  /\ LET f == frames[w.generation]
         n == f.tilesComputed + 1
     IN IF FrameComplete(n)
          THEN /\ frameFiles' = Append(frameFiles, FrameFile(f))
               /\ frames' = [frames EXCEPT ![w.generation].tilesComputed = 0,
                                           ![w.generation].frameMutex = "free"]
          ELSE /\ frames' = [frames EXCEPT ![w.generation].tilesComputed = n,
                                           ![w.generation].frameMutex = "free"]
               /\ UNCHANGED frameFiles
  /\ threads' = Advance(w, "exit")
  /\ UNCHANGED <<viewerVars, zoom, generation, runningThreads, pendingTiles,
                 mainPc, loopIdx, legacyFrameCount>>

\* src/videogen.cpp: frames[generation].tilesComputed++; the lock_guard ends.
LegacyVideoWorkerCount(w) ==
  /\ VideoAlive
  /\ ~saveInWorker
  /\ w.pc = "count"
  /\ frames' = [frames EXCEPT ![w.generation].tilesComputed = @ + 1,
                              ![w.generation].frameMutex = "free"]
  /\ threads' = Advance(w, "exit")
  /\ UNCHANGED <<viewerVars, zoom, generation, runningThreads, pendingTiles,
                 mainPc, loopIdx, frameFiles, legacyFrameCount>>

\* runningThreads.fetch_sub(1); the thread ends.
VideoWorkerExit(w) ==
  /\ VideoAlive
  /\ w.pc = "exit"
  /\ runningThreads' = FetchSub(runningThreads)
  /\ threads' = threads \ {w}
  /\ UNCHANGED <<viewerVars, zoom, generation, pendingTiles, mainPc, loopIdx,
                 frames, frameFiles, legacyFrameCount>>

NextVideo ==
  \/ scheduleFrame
  \/ VideoOuterTest
  \/ LegacyVideoSaveCheck
  \/ VideoDispatch
  \/ VideoInnerExit
  \/ \E w \in threads : VideoWorkerStart(w)
  \/ \E w \in threads : VideoWorkerStore(w)
  \/ \E w \in threads : VideoWorkerLock(w)
  \/ \E w \in threads : VideoWorkerCount(w)
  \/ \E w \in threads : LegacyVideoWorkerCount(w)
  \/ \E w \in threads : VideoWorkerExit(w)

SpecVideo == InitVideo /\ [][NextVideo]_vars

\* The zoom scheduleFrame is called with for frame g.
ZoomOfFrame(g) == zoomStep ^ g

\* The files written for frame g.
FilesOf(g) == {k \in 1 .. Len(frameFiles) : frameFiles[k].generation = g}

\* Every worker of frame g has left the block that counts its tile.
FrameCounted(g) ==
  /\ generation > g
  /\ \A k \in 1 .. Len(pendingTiles) : pendingTiles[k].generation # g
  /\ \A w \in threads : w.generation = g => w.pc = "exit"

DoneAfterAllWork ==
  (saveInWorker /\ mainPc = "done") =>
    /\ \A g \in FrameIndices : \A i \in TileIndices :
         frames[g].tiles[i].hasComputed
    /\ \A g \in FrameIndices : Cardinality(FilesOf(g)) = 1
====
